---- MODULE Spec2Model ----
(***************************************************************************)
(* Verification model of the Dataminr Pulse (limited) integration server.  *)
(*                                                                         *)
(* Two parts of the server are modelled:                                   *)
(*   - the alert store of src/server/alerts/stateManager.js (lines 1-372,  *)
(*     the Map-backed store that the rest of the server imports), under    *)
(*     the specification SpecStore;                                        *)
(*   - the rate-limit gate (request queue) of src/server/request.js, under *)
(*     the specification SpecQueue.                                        *)
(*                                                                         *)
(* Time is a wall clock `now` counted in ticks.  The durations of the code *)
(* (72 h, 120 s, 30 s) are scaled to a few ticks and the capacities (100   *)
(* alerts, 12 queued requests, 6 requests per window) to a few items; each *)
(* scaled constant names its value in the source in its comment.           *)
(***************************************************************************)
EXTENDS Integers, Sequences, FiniteSets, TLC

(***************************************************************************)
(* Bounds of the model (not program constants).                            *)
(***************************************************************************)
\* Last tick of the wall clock.
MaxTime == 4
\* Largest number of alerts the model lets the store sequence grow to.
MaxStore == 3
\* Number of requests submitted to the gateway.
MaxReq == 3

(***************************************************************************)
(* Program constants of the alert store.                                   *)
(***************************************************************************)
\* src/constants.js:3  CACHE_MAX_AGE_MS = 72 h, scaled to 2 ticks.
CACHE_MAX_AGE_MS == 2
\* src/constants.js:4  CACHE_MAX_ITEMS = 100, scaled to 2.  stateManager.js
\* never reads it.
CACHE_MAX_ITEMS == 2
\* src/constants.js:5  DEFAULT_PAGE_SIZE = 40, scaled to 2: the most alerts a
\* vendor page, and so one addAlertsToCache call, carries.
DEFAULT_PAGE_SIZE == 2
\* src/server/alerts/stateManager.js:259  the store is only re-sorted when it
\* holds more than 10 alerts, and (line 262) only its first 10 are scanned.
SORT_MIN_LENGTH == 10
\* src/constants.js:11  DEFAULT_ALERT_TYPES_TO_WATCH
DEFAULT_ALERT_TYPES_TO_WATCH == {"flash", "urgent"}

\* The wall clock when the store is constructed: late enough that
\* now - CACHE_MAX_AGE_MS is a timestamp an alert can carry.
StartTime == CACHE_MAX_AGE_MS + 1

(***************************************************************************)
(* Program constants of the gateway (src/server/request.js).               *)
(***************************************************************************)
\* request.js:17-18  limit = remaining = 6 requests per window, scaled to 2.
DEFAULT_LIMIT == 2
\* request.js:20  windowMs = 30000, scaled to 1 tick.
WINDOW_MS == 1
\* request.js:25  MAX_QUEUE_SIZE = 12, scaled to 2.
MAX_QUEUE_SIZE == 2
\* request.js:26  QUEUE_REQUEST_TIMEOUT_MS = 120000, scaled to 2 ticks.
QUEUE_REQUEST_TIMEOUT_MS == 2
\* request.js:328  maxRetries = 3, scaled to 1.
MAX_RETRIES == 1

(***************************************************************************)
(* Alerts.  alertId "" is a missing id, alertTimestamp 0 a missing         *)
(* timestamp (both falsy in the code), alertType "" a missing type name.   *)
(***************************************************************************)
AlertIds == {"", "A", "B"}
TypeNames == {"", "Flash", "Alert"}
Timestamps == 0..MaxTime
Alert == [alertId : AlertIds, alertTimestamp : Timestamps, alertType : TypeNames]

VARIABLES
    now,               \* Date.now()
    alertTypesToWatch, \* the configured alert types (DEFAULT_ALERT_TYPES_TO_WATCH)
    alerts,            \* cache[ALERTS_KEY]: the cached sequence
    alertsMap,         \* cache[ALERTS_MAP_KEY]: alertId -> alert
    lastAdd,           \* the outcome of the last addAlertsToCache call
    requestQueue,      \* request.js requestQueue: <<[id, expiresAt]>>
    isProcessingQueue, \* request.js isProcessingQueue
    rateLimitState,    \* request.js rateLimitState; resetAt 0 is null
    sleeping,          \* where processQueue is suspended, and until when
    reqState,          \* per request: its progress, and its attemptNumber
    dispatchLog,       \* the dispatches so far, in order
    call,              \* one requestWithDefaults call: its executeRequest
    fanout,            \* one requestsInParallel call, and the lookup over it
    poll,              \* the polling state, and one pollAlerts cycle
    life,              \* initializePolling, its timers, and shutdown
    reply              \* one onMessage request and its answer

storeVars == <<alertTypesToWatch, alerts, alertsMap, lastAdd>>
queueVars == <<requestQueue, isProcessingQueue, rateLimitState, sleeping,
               reqState, dispatchLog>>
clientVars == <<call, fanout, poll, life, reply>>
vars == <<now, alertTypesToWatch, alerts, alertsMap, lastAdd, requestQueue,
          isProcessingQueue, rateLimitState, sleeping, reqState, dispatchLog,
          call, fanout, poll, life, reply>>

(***************************************************************************)
(* Helpers.                                                                *)
(***************************************************************************)
Range(s) == {s[i] : i \in 1..Len(s)}

Min(a, b) == IF a <= b THEN a ELSE b

\* String.prototype.toLowerCase on the type names of the model.
ToLowerCase(s) ==
    CASE s = "Flash" -> "flash"
      [] s = "Alert" -> "alert"
      [] s = "Urgent" -> "urgent"
      [] OTHER -> s

\* Map.prototype.set
MapSetForgotten(m, k, v) == m

MapSet(m, k, v) == [x \in (DOMAIN m) \cup {k} |-> IF x = k THEN v ELSE m[x]]

EmptyMap == [x \in {} |-> 0]

\* new Date(alert.alertTimestamp).getTime() on a millisecond timestamp
AlertTime(a) == a.alertTimestamp

(***************************************************************************)
(* getAlertTypesToWatchSet (stateManager.js 167-176)                       *)
(***************************************************************************)
getAlertTypesToWatchSet(types) == {ToLowerCase(t) : t \in types}

\* The type name an alert is filtered by (stateManager.js 199-202).
FilterNameDefaultFlash(a) ==
    IF a.alertType # "" THEN ToLowerCase(a.alertType) ELSE "flash"

FilterName(a) == IF a.alertType # "" THEN ToLowerCase(a.alertType) ELSE "alert"

\* allowedAlerts (stateManager.js 194-204)
AllowedAlerts(batch, types) ==
    LET alertTypesSet == getAlertTypesToWatchSet(types) IN
    IF Cardinality(alertTypesSet) = 0
    THEN batch
    ELSE SelectSeq(batch, LAMBDA a : FilterName(a) \in alertTypesSet)

\* existingMap.has(alert.alertId) (stateManager.js 226)
AlreadyCachedNever(map, alertId) == FALSE

AlreadyCached(map, alertId) == alertId \in DOMAIN map

(***************************************************************************)
(* The forEach of stateManager.js 218-238 over allowedAlerts[i..]: acc is  *)
(* [new: newAlertsToAdd, map: existingMap, dupes, old], the last two       *)
(* counting the alerts skipped at lines 226 and 232.                       *)
(***************************************************************************)
RECURSIVE FilterIncoming(_, _, _, _)
FilterIncoming(allowed, i, acc, t) ==
    IF i > Len(allowed) THEN acc
    ELSE LET a == allowed[i]
             alertTime == IF a.alertTimestamp # 0 THEN AlertTime(a) ELSE t
         IN  IF a.alertId = ""
             THEN FilterIncoming(allowed, i + 1,
                      [acc EXCEPT !.new = Append(@, a)], t)
             ELSE IF AlreadyCached(acc.map, a.alertId)
             THEN FilterIncoming(allowed, i + 1,
                      [acc EXCEPT !.dupes = @ + 1], t)
             ELSE IF alertTime <= t - CACHE_MAX_AGE_MS
             THEN FilterIncoming(allowed, i + 1,
                      [acc EXCEPT !.old = @ + 1], t)
             ELSE FilterIncoming(allowed, i + 1,
                      [acc EXCEPT !.new = Append(@, a),
                                  !.map = MapSet(@, a.alertId, a)], t)

\* The age filter of stateManager.js 248-254.
WithinMaxAge(a, t) == a.alertTimestamp # 0 /\ (t - AlertTime(a)) <= CACHE_MAX_AGE_MS

\* The comparator's key (stateManager.js 273-274).
SortTime(a) == IF a.alertTimestamp # 0 THEN AlertTime(a) ELSE 0

\* Array.prototype.sort with (a, b) => timeB - timeA: a stable sort, newest first.
RECURSIVE InsertDesc(_, _)
InsertDesc(sorted, a) ==
    IF sorted = << >> THEN <<a>>
    ELSE IF SortTime(Head(sorted)) >= SortTime(a)
         THEN <<Head(sorted)>> \o InsertDesc(Tail(sorted), a)
         ELSE <<a>> \o sorted

RECURSIVE SortDesc(_)
SortDesc(s) ==
    IF s = << >> THEN << >>
    ELSE InsertDesc(SortDesc(SubSeq(s, 1, Len(s) - 1)), s[Len(s)])

\* needsSort (stateManager.js 261-269): an inversion among the first 10 alerts.
NeedsSort(s) ==
    \E i \in 1..(Min(SORT_MIN_LENGTH, Len(s)) - 1) :
        AlertTime(s[i]) < AlertTime(s[i + 1])

\* stateManager.js 259-278
SortIfNeeded(s) ==
    IF Len(s) > SORT_MIN_LENGTH /\ NeedsSort(s) THEN SortDesc(s) ELSE s

\* The map rebuilt from the sequence (stateManager.js 282-287): a later
\* alert with the same id overwrites an earlier one.
RebuildMap(s) ==
    LET ids == {s[i].alertId : i \in 1..Len(s)} \ {""}
        last(id) == CHOOSE i \in 1..Len(s) :
                        /\ s[i].alertId = id
                        /\ \A j \in 1..Len(s) : s[j].alertId = id => j <= i
    IN  [id \in ids |-> s[last(id)]]

(***************************************************************************)
(* addAlertsToCache (stateManager.js 188-298): the store after the call,   *)
(* with the counters of the call.                                          *)
(***************************************************************************)
addAlertsToCache(batch, seq, map, types, t) ==
    LET allowedAlerts == AllowedAlerts(batch, types)
        unchanged == [alerts |-> seq, map |-> map, offered |-> Len(batch),
                      rejected |-> Len(batch) - Len(allowedAlerts),
                      dupes |-> 0, old |-> 0, added |-> 0]
    IN  IF Len(batch) = 0 \/ Len(allowedAlerts) = 0 THEN unchanged
        ELSE
        LET acc == FilterIncoming(allowedAlerts, 1,
                       [new |-> << >>, map |-> map, dupes |-> 0, old |-> 0], t)
            newAlertsToAdd == acc.new
            allAlerts == newAlertsToAdd \o seq
            filteredAlerts == SortIfNeeded(
                                  SelectSeq(allAlerts, LAMBDA a : WithinMaxAge(a, t)))
            newMap == IF Len(filteredAlerts) # Len(allAlerts)
                      THEN RebuildMap(filteredAlerts)
                      ELSE acc.map
        IN  IF Len(newAlertsToAdd) = 0
            THEN [unchanged EXCEPT !.dupes = acc.dupes, !.old = acc.old]
            ELSE [alerts |-> filteredAlerts, map |-> newMap,
                  offered |-> Len(batch),
                  rejected |-> Len(batch) - Len(allowedAlerts),
                  dupes |-> acc.dupes, old |-> acc.old,
                  added |-> Len(newAlertsToAdd)]

(***************************************************************************)
(* getCachedAlerts (stateManager.js 110-164): the sequence it returns and  *)
(* the sequence it leaves in the cache.  since = 0 is a null               *)
(* alertFilterTimestamp.                                                   *)
(***************************************************************************)
getCachedAlerts(seq, since, t) ==
    LET cutoffTime == t - CACHE_MAX_AGE_MS
        oldestAlert == seq[Len(seq)]
        cleanup == /\ oldestAlert.alertTimestamp # 0
                   /\ AlertTime(oldestAlert) <= cutoffTime
        filtered == IF cleanup
                    THEN SelectSeq(seq, LAMBDA a :
                             a.alertTimestamp # 0 /\ AlertTime(a) > cutoffTime)
                    ELSE seq
    IN  IF Len(seq) = 0
        THEN [result |-> << >>, alerts |-> seq]
        ELSE [result |-> IF since # 0
                         THEN SelectSeq(filtered, LAMBDA a :
                                  a.alertTimestamp # 0 /\ AlertTime(a) > since)
                         ELSE filtered,
              alerts |-> filtered]

\* getCachedAlertById (stateManager.js 315-322): << >> is null.
getCachedAlertById(map, alertId) ==
    IF alertId = "" THEN << >>
    ELSE IF alertId \in DOMAIN map THEN <<map[alertId]>> ELSE << >>

(***************************************************************************)
(* The alert store as a state machine.                                     *)
(***************************************************************************)
NoAdd == [offered |-> 0, rejected |-> 0, dupes |-> 0, old |-> 0, added |-> 0]

\* The alerts the vendor can serve at time t: no timestamp lies in the future.
ServedAlerts(t) == {a \in Alert : a.alertTimestamp <= t}

\* The alerts of a vendor page.  Pages carry "Flash" alerts; single fetched
\* alerts (CacheFetchedAlert) carry every type name of the model, and none.
PageAlerts(t) == {a \in ServedAlerts(t) : a.alertType = "Flash"}

Pages(t) == UNION {[1..n -> PageAlerts(t)] : n \in 0..DEFAULT_PAGE_SIZE}

\* No requestWithDefaults call has been made.
NoCall == [pc |-> "none"]

\* No requestsInParallel call has been made.
NoFanOut == [pc |-> "none"]

\* pollAlerts has not been called.
NoPoll == [pc |-> "none"]

\* The integration module is not loaded.
NoLife == [pc |-> "none"]

\* No onMessage request has been made.
NoReply == [pc |-> "none"]

InitGateway ==
    /\ requestQueue = << >>
    /\ isProcessingQueue = FALSE
    /\ rateLimitState = [limit |-> DEFAULT_LIMIT, remaining |-> DEFAULT_LIMIT,
                         resetAt |-> 0]
    /\ sleeping = [at |-> "none", until |-> 0]
    /\ reqState = [r \in 1..MaxReq |-> [st |-> "new", attemptNumber |-> 0]]
    /\ dispatchLog = << >>
    /\ call = NoCall
    /\ fanout = NoFanOut
    /\ poll = NoPoll
    /\ life = NoLife
    /\ reply = NoReply

InitStore ==
    /\ now = StartTime
    /\ alertTypesToWatch = DEFAULT_ALERT_TYPES_TO_WATCH
    /\ alerts = << >>
    /\ alertsMap = EmptyMap
    /\ lastAdd = NoAdd
    /\ InitGateway

\* One addAlertsToCache(batch) call.
Admit(batch) ==
    LET r == addAlertsToCache(batch, alerts, alertsMap, alertTypesToWatch, now) IN
    /\ Len(alerts) + Len(batch) <= MaxStore
    /\ alerts' = r.alerts
    /\ alertsMap' = r.map
    /\ lastAdd' = [offered |-> r.offered, rejected |-> r.rejected,
                   dupes |-> r.dupes, old |-> r.old, added |-> r.added]
    /\ UNCHANGED <<now, alertTypesToWatch>>
    /\ UNCHANGED queueVars
    /\ UNCHANGED clientVars

\* addAlertsToCache on a page of alerts: a poll cycle storing a page
\* (alertProcessor.js 21), a lookup storing its search results
\* (unnamed/part_000 114), getAlerts storing its fallback page
\* (unnamed/part_000 320), in whatever order they reach the store.
AddAlertsToCache == \E batch \in Pages(now) : Admit(batch)

\* getAlertById storing the alert it fetched: addAlertsToCache([alert])
\* (unnamed/part_000 380).
CacheFetchedAlert == \E a \in ServedAlerts(now) : Admit(<<a>>)

\* getCachedAlerts: its cleanup pass is its only effect on the store.
GetCachedAlerts ==
    /\ alerts' = getCachedAlerts(alerts, 0, now).alerts
    /\ lastAdd' = NoAdd
    /\ UNCHANGED <<now, alertTypesToWatch, alertsMap>>
    /\ UNCHANGED queueVars
    /\ UNCHANGED clientVars

\* clearCachedAlerts (stateManager.js 304-307)
ClearCachedAlerts ==
    /\ alerts' = << >>
    /\ alertsMap' = EmptyMap
    /\ lastAdd' = NoAdd
    /\ UNCHANGED <<now, alertTypesToWatch>>
    /\ UNCHANGED queueVars
    /\ UNCHANGED clientVars

\* The wall clock advances.
Tick ==
    /\ now < MaxTime
    /\ now' = now + 1
    /\ lastAdd' = NoAdd
    /\ UNCHANGED <<alertTypesToWatch, alerts, alertsMap>>
    /\ UNCHANGED queueVars
    /\ UNCHANGED clientVars

NextStore ==
    \/ AddAlertsToCache
    \/ CacheFetchedAlert
    \/ GetCachedAlerts
    \/ ClearCachedAlerts
    \/ Tick

SpecStore == InitStore /\ [][NextStore]_vars

(***************************************************************************)
(* Properties of the alert store, checked under SpecStore.                 *)
(***************************************************************************)
\* C1: after any sequence of addAlertsToCache calls the cached sequence
\* holds at most CACHE_MAX_ITEMS alerts.
CacheHoldsAtMostMaxItems == Len(alerts) <= CACHE_MAX_ITEMS

IsSortedDescending(s) ==
    \A i \in 1..(Len(s) - 1) : s[i].alertTimestamp >= s[i + 1].alertTimestamp

\* C2: after every addAlertsToCache call, whatever the order of the batch
\* and whatever the store held, the cached sequence is sorted by
\* alertTimestamp, newest first.
SortedAfterEveryAdd == lastAdd.offered > 0 => IsSortedDescending(alerts)

\* C3: in every reachable state the keys of the alertId -> alert mapping
\* are exactly the non-empty alertIds of the alerts of the sequence.
MapKeysMatchSequence ==
    DOMAIN alertsMap = {alerts[i].alertId : i \in 1..Len(alerts)} \ {""}

\* C4: getCachedAlerts never returns an alert whose age, now minus
\* alertTimestamp, exceeds CACHE_MAX_AGE_MS, with or without a since filter.
NoStaleAlertReturned ==
    \A since \in Timestamps :
        \A a \in Range(getCachedAlerts(alerts, since, now).result) :
            now - a.alertTimestamp <= CACHE_MAX_AGE_MS

\* The number of records of the sequence s that carry the alertId id.
Occurrences(s, id) == Cardinality({i \in 1..Len(s) : s[i].alertId = id})

AddTwiceIsAddOnce(a, t1, t2) ==
    LET once == addAlertsToCache(<<a>>, alerts, alertsMap, alertTypesToWatch, t1)
        twice == addAlertsToCache(<<a>>, once.alerts, once.map,
                                  alertTypesToWatch, t2)
    IN  twice.alerts = once.alerts /\ twice.map = once.map

\* C6 as stated: for any alert, with or without an alertId, adding it twice
\* leaves sequence and mapping as adding it once does.
AddIsIdempotentForAnyAlert ==
    \A a \in ServedAlerts(now) : AddTwiceIsAddOnce(a, now, now)

\* C6 amended: for any alert that carries a non-empty alertId, adding it
\* twice leaves sequence and mapping as adding it once does; when it also
\* carries an alertTimestamp, however late the second call comes.
AddIsIdempotentForIdentifiedAlerts ==
    \A a \in ServedAlerts(now) :
        a.alertId # "" =>
            /\ AddTwiceIsAddOnce(a, now, now)
            /\ a.alertTimestamp # 0 =>
                   \A t2 \in now..MaxTime : AddTwiceIsAddOnce(a, now, t2)

\* C6 witness: the store just admitted one alert with an alertId, and
\* offering the same alert again is discarded as already cached.
AddIsIdempotentWitness ==
    /\ lastAdd.offered = 1 /\ lastAdd.added = 1
    /\ Len(alerts) > 0
    /\ alerts[1].alertId # ""
    /\ addAlertsToCache(<<alerts[1]>>, alerts, alertsMap,
                        alertTypesToWatch, now).dupes = 1

(***************************************************************************)
(* The admission filter under several values of the alert types the build  *)
(* watches (DEFAULT_ALERT_TYPES_TO_WATCH, read by getAlertTypesToWatchSet): *)
(* the shipped list, a list naming one type in mixed case, and the empty   *)
(* list.  The store admits single alerts of every type name.               *)
(***************************************************************************)
InitFilter ==
    /\ now = StartTime
    /\ alertTypesToWatch \in {DEFAULT_ALERT_TYPES_TO_WATCH, {"Alert"}, {}}
    /\ alerts = << >>
    /\ alertsMap = EmptyMap
    /\ lastAdd = NoAdd
    /\ InitGateway

NextFilter ==
    \/ CacheFetchedAlert
    \/ GetCachedAlerts
    \/ ClearCachedAlerts

SpecFilter == InitFilter /\ [][NextFilter]_vars

\* The lowercased type name of a record, an alert without a type name
\* counting as 'alert'.
LowercasedTypeName(a) ==
    IF a.alertType = "" THEN "alert" ELSE ToLowerCase(a.alertType)

\* The lowercased names of the watched alert types.
WatchedNames == {ToLowerCase(t) : t \in alertTypesToWatch}

EmptyFilterAdmitsAll ==
    /\ alertTypesToWatch = {}
    /\ \E i, j \in 1..Len(alerts) :
           alerts[i].alertType = "Alert" /\ alerts[j].alertType = ""

(***************************************************************************)
(* The rate-limit gate of src/server/request.js.                           *)
(*                                                                         *)
(* Requests are numbered 1..MaxReq in the order they are submitted.  A     *)
(* request is "new" (not yet submitted), "queued", "inflight" (its         *)
(* executeRequest is running), "done", "failed", "timedout" (dropped from  *)
(* the queue as expired) or "full" (rejected because the queue was full).  *)
(* JavaScript runs each piece of code between two awaits without           *)
(* interruption, so each action below is one such piece.                   *)
(***************************************************************************)
\* A header the response does not carry.
NoHdr == 0 - 1

\* The X-RateLimit-* headers a response can carry: each may be missing; a
\* response that advertises the limit advertises the whole window.
Headers ==
    {h \in [limit : {NoHdr, 1}, remaining : {NoHdr, 0, 1}, reset : {NoHdr, 1}] :
        h.limit # NoHdr => (h.remaining # NoHdr /\ h.reset # NoHdr)}

\* updateRateLimitFromHeaders (request.js 43-73)
updateRateLimitFromHeaders(rl, h, t) ==
    [limit |-> IF h.limit # NoHdr THEN h.limit ELSE rl.limit,
     remaining |-> IF h.remaining # NoHdr THEN h.remaining ELSE rl.remaining,
     resetAt |-> IF h.reset # NoHdr THEN t + h.reset ELSE rl.resetAt]

\* The gateway's state as one record.
Gateway ==
    [requestQueue |-> requestQueue, isProcessingQueue |-> isProcessingQueue,
     rateLimitState |-> rateLimitState, sleeping |-> sleeping,
     reqState |-> reqState, dispatchLog |-> dispatchLog]

\* requestQueue.push (request.js 190)
EnqueueAtFront(q, e) == <<e>> \o q

Enqueue(q, e) == Append(q, e)

\* The test of request.js 179.
QueueIsFullOffByOne(q) == Len(q) > MAX_QUEUE_SIZE

QueueIsFull(q) == Len(q) >= MAX_QUEUE_SIZE

\* The test of request.js 117.
HasQuotaOrZero(rl) == rl.remaining >= 0

HasQuota(rl) == rl.remaining > 0

\* Optimistically decrement quota (request.js 127).
ConsumeQuota(rl) == [rl EXCEPT !.remaining = @ - 1]

\* The expired requests at the front of the queue (request.js 92).
ExpiredPrefixNone(q, t) == 0

RECURSIVE ExpiredPrefix(_, _)
ExpiredPrefix(q, t) ==
    IF q # << >> /\ Head(q).expiresAt < t
    THEN 1 + ExpiredPrefix(Tail(q), t)
    ELSE 0

\* The while loop of processQueue (request.js 88-165), from the top of an
\* iteration to the next await or to the end of the function.  Each dispatch
\* is logged with rateLimitState.remaining before and after it, and with
\* whether the loop was resumed from a sleep (woke).
RECURSIVE processQueueLoop(_, _, _)
processQueueLoop(g, t, woke) ==
    IF g.requestQueue = << >>
    THEN [g EXCEPT !.isProcessingQueue = FALSE]
    ELSE
    LET n == ExpiredPrefix(g.requestQueue, t)
        expired == {g.requestQueue[i].id : i \in 1..n}
        queue == SubSeq(g.requestQueue, n + 1, Len(g.requestQueue))
        reqs == [r \in DOMAIN g.reqState |->
                    IF r \in expired
                    THEN [g.reqState[r] EXCEPT !.st = "timedout"]
                    ELSE g.reqState[r]]
        rl == IF g.rateLimitState.resetAt # 0 /\ t >= g.rateLimitState.resetAt
              THEN [g.rateLimitState EXCEPT !.remaining = g.rateLimitState.limit,
                                            !.resetAt = 0]
              ELSE g.rateLimitState
    IN  IF queue = << >>
        THEN [g EXCEPT !.requestQueue = queue, !.reqState = reqs,
                       !.isProcessingQueue = FALSE]
        ELSE IF HasQuota(rl)
        THEN LET queuedRequest == Head(queue)
                 used == ConsumeQuota(rl)
             IN  processQueueLoop(
                     [g EXCEPT !.requestQueue = Tail(queue),
                               !.rateLimitState = used,
                               !.reqState = [reqs EXCEPT
                                   ![queuedRequest.id].st = "inflight"],
                               !.dispatchLog = Append(@,
                                   [id |-> queuedRequest.id,
                                    woke |-> woke,
                                    before |-> rl.remaining,
                                    after |-> used.remaining])], t, woke)
        ELSE IF rl.resetAt # 0 /\ rl.resetAt > t
        THEN [g EXCEPT !.requestQueue = queue, !.reqState = reqs,
                       !.rateLimitState = rl,
                       !.sleeping = [at |-> "reset", until |-> rl.resetAt]]
        ELSE [g EXCEPT !.requestQueue = queue, !.reqState = reqs,
                       !.rateLimitState = rl,
                       !.sleeping = [at |-> "window", until |-> t + WINDOW_MS]]

processQueueReentrant(g, t) ==
    processQueueLoop([g EXCEPT !.isProcessingQueue = TRUE], t, FALSE)

\* processQueue from its call (request.js 79-86).
processQueue(g, t) ==
    IF g.isProcessingQueue \/ g.requestQueue = << >>
    THEN g
    ELSE processQueueLoop([g EXCEPT !.isProcessingQueue = TRUE], t, FALSE)

\* processQueue after its sleep (request.js 146-148 and 161-162).
afterSleep(g, t) ==
    LET rl == [g.rateLimitState EXCEPT
                  !.remaining = g.rateLimitState.limit,
                  !.resetAt = IF g.sleeping.at = "reset" THEN 0 ELSE @]
    IN  processQueueLoop([g EXCEPT !.rateLimitState = rl,
                                   !.sleeping = [at |-> "none", until |-> 0]],
                         t, TRUE)

SetGateway(g) ==
    /\ requestQueue' = g.requestQueue
    /\ isProcessingQueue' = g.isProcessingQueue
    /\ rateLimitState' = g.rateLimitState
    /\ sleeping' = g.sleeping
    /\ reqState' = g.reqState
    /\ dispatchLog' = g.dispatchLog

\* The next request to submit.
NextRequest == CHOOSE r \in 1..MaxReq :
                   reqState[r].st = "new" /\ \A q \in 1..(r - 1) : reqState[q].st # "new"

\* queueRequest (request.js 175-213)
QueueRequest ==
    /\ \E r \in 1..MaxReq : reqState[r].st = "new"
    /\ LET r == NextRequest IN
       IF QueueIsFull(requestQueue)
       THEN /\ reqState' = [reqState EXCEPT ![r].st = "full"]
            /\ UNCHANGED <<requestQueue, isProcessingQueue, rateLimitState,
                           sleeping, dispatchLog>>
       ELSE SetGateway(processQueue(
                [Gateway EXCEPT
                    !.requestQueue = Enqueue(@,
                        [id |-> r, expiresAt |-> now + QUEUE_REQUEST_TIMEOUT_MS]),
                    !.reqState = [reqState EXCEPT ![r].st = "queued"]], now))
    /\ UNCHANGED now
    /\ UNCHANGED storeVars
    /\ UNCHANGED clientVars

\* The sleep of processQueue ends (request.js 144, 159).
WakeProcessor ==
    /\ sleeping.at # "none"
    /\ now >= sleeping.until
    /\ SetGateway(afterSleep(Gateway, now))
    /\ UNCHANGED now
    /\ UNCHANGED storeVars
    /\ UNCHANGED clientVars

\* An HTTP attempt of executeRequest (request.js 340-433) ends: with a 200
\* ("ok"), with a 429, or with a failure that carries no response ("error").
\* h are the rate-limit headers of the response (request.js 355, 362-364).
\* A 429 below maxRetries is retried by the same executeRequest, outside the
\* queue (request.js 404-416).
Respond(r, kind, h) ==
    /\ reqState[r].st = "inflight"
    /\ rateLimitState' = updateRateLimitFromHeaders(rateLimitState, h, now)
    /\ reqState' =
          IF kind = "ok" THEN [reqState EXCEPT ![r].st = "done"]
          ELSE IF kind = "429" /\ reqState[r].attemptNumber < MAX_RETRIES
          THEN [reqState EXCEPT ![r].attemptNumber = @ + 1]
          ELSE [reqState EXCEPT ![r].st = "failed"]
    /\ UNCHANGED <<now, requestQueue, isProcessingQueue, sleeping, dispatchLog>>
    /\ UNCHANGED storeVars
    /\ UNCHANGED clientVars

NoHeaders == [limit |-> NoHdr, remaining |-> NoHdr, reset |-> NoHdr]

HttpResponse ==
    \E r \in 1..MaxReq :
        \/ \E kind \in {"ok", "429"}, h \in Headers : Respond(r, kind, h)
        \/ Respond(r, "error", NoHeaders)

InitQueue ==
    /\ now = 1
    /\ alertTypesToWatch = DEFAULT_ALERT_TYPES_TO_WATCH
    /\ alerts = << >>
    /\ alertsMap = EmptyMap
    /\ lastAdd = NoAdd
    /\ InitGateway

NextQueue ==
    \/ QueueRequest
    \/ WakeProcessor
    \/ HttpResponse
    \/ Tick

SpecQueue == InitQueue /\ [][NextQueue]_vars

\* The gateway after earlier requests, all completed, used up the quota of
\* the window: remaining is 0 (request.js 127) and their responses carried
\* no rate-limit headers, so that no reset time is known (request.js 50-60).
InitBusy ==
    /\ now = 1
    /\ alertTypesToWatch = DEFAULT_ALERT_TYPES_TO_WATCH
    /\ alerts = << >>
    /\ alertsMap = EmptyMap
    /\ lastAdd = NoAdd
    /\ requestQueue = << >>
    /\ isProcessingQueue = FALSE
    /\ rateLimitState = [limit |-> DEFAULT_LIMIT, remaining |-> 0, resetAt |-> 0]
    /\ sleeping = [at |-> "none", until |-> 0]
    /\ reqState = [r \in 1..MaxReq |-> [st |-> "new", attemptNumber |-> 0]]
    /\ dispatchLog = << >>
    /\ call = NoCall
    /\ fanout = NoFanOut
    /\ poll = NoPoll
    /\ life = NoLife
    /\ reply = NoReply

SpecBusy == InitBusy /\ [][NextQueue]_vars

(***************************************************************************)
(* Properties of the gateway, checked under SpecQueue.  Requests are       *)
(* numbered in the order they are enqueued.                                *)
(***************************************************************************)
\* C8: requests leave the queue in enqueue order: the dispatches so far are
\* in increasing order of submission and every request still queued was
\* submitted after every request dispatched, across the processor's sleeps.
QueueFIFO ==
    /\ \A i, j \in 1..Len(dispatchLog) :
           i < j => dispatchLog[i].id < dispatchLog[j].id
    /\ \A i \in 1..Len(requestQueue) :
           /\ \A j \in 1..Len(dispatchLog) : dispatchLog[j].id < requestQueue[i].id
           /\ \A k \in 1..(i - 1) : requestQueue[k].id < requestQueue[i].id

\* C8 witness: three requests were dispatched, none expired, the second and
\* third after the processor slept on an exhausted rate limit with both in
\* the queue.
QueueFIFOWitness ==
    /\ Len(dispatchLog) >= 3
    /\ ~dispatchLog[1].woke /\ dispatchLog[2].woke /\ dispatchLog[3].woke
    /\ \A r \in 1..MaxReq : reqState[r].st # "timedout"

\* C9: at most one request issued through the queue is in flight at any
\* time.
AtMostOneInFlight ==
    Cardinality({r \in 1..MaxReq : reqState[r].st = "inflight"}) <= 1

\* C10: a request is dispatched only with rateLimitState.remaining > 0 and
\* each dispatch decrements remaining by one; remaining is never negative;
\* the processor suspends only with remaining = 0, until resetAt when a
\* reset in the future is known and else for the default window, and
\* dispatches nothing before that time; between two of its steps requests
\* wait in the queue only while it is suspended.
RateLimitGate ==
    [][/\ \A i \in (Len(dispatchLog) + 1)..Len(dispatchLog') :
             /\ dispatchLog'[i].before > 0
             /\ dispatchLog'[i].after = dispatchLog'[i].before - 1
       /\ Len(dispatchLog') > Len(dispatchLog) =>
             rateLimitState'.remaining = dispatchLog'[Len(dispatchLog')].after
       /\ rateLimitState'.remaining >= 0
       /\ (sleeping'.at # "none" /\ sleeping' # sleeping) =>
             /\ rateLimitState'.remaining = 0
             /\ sleeping'.until =
                    IF rateLimitState'.resetAt # 0 /\ rateLimitState'.resetAt > now
                    THEN rateLimitState'.resetAt
                    ELSE now + WINDOW_MS
       /\ (sleeping.at # "none" /\ now < sleeping.until) =>
             dispatchLog' = dispatchLog
       /\ requestQueue' # << >> => sleeping'.at # "none"]_vars

\* C10 witness: the processor is suspended until a known reset with a request
\* waiting, after a dispatch that took remaining from 1 to 0.
RateLimitGateWitness ==
    /\ sleeping.at = "reset"
    /\ requestQueue # << >>
    /\ \E i \in 1..Len(dispatchLog) :
           dispatchLog[i].before = 1 /\ dispatchLog[i].after = 0

\* The requests a step submits: those it takes out of "new".
Submitted(r) == reqState[r].st = "new" /\ reqState'[r].st # "new"

\* C11 as stated: a request submitted while MAX_QUEUE_SIZE earlier requests
\* are in flight is rejected with the queue-full error.
FullWhenMaxInFlight ==
    [][\A r \in 1..MaxReq :
          (/\ Submitted(r)
           /\ Cardinality({q \in 1..MaxReq : reqState[q].st = "inflight"})
                  >= MAX_QUEUE_SIZE)
          => reqState'[r].st = "full"]_vars

\* C11 amended: a request submitted while MAX_QUEUE_SIZE earlier requests
\* wait in the queue is rejected with the queue-full error, an outcome of
\* its own, and the rejection leaves the queue, the quota and the dispatches
\* as they were; any other submission is accepted; the queue never holds
\* more than MAX_QUEUE_SIZE entries and a rejected request is never
\* dispatched.
QueueFullRejects ==
    [][/\ \A r \in 1..MaxReq :
             Submitted(r) =>
                 IF Len(requestQueue) >= MAX_QUEUE_SIZE
                 THEN /\ reqState'[r].st = "full"
                      /\ requestQueue' = requestQueue
                      /\ rateLimitState' = rateLimitState
                      /\ dispatchLog' = dispatchLog
                 ELSE reqState'[r].st \in {"queued", "inflight"}
       /\ Len(requestQueue') <= MAX_QUEUE_SIZE
       /\ \A r \in 1..MaxReq :
             reqState[r].st = "full" =>
                 /\ reqState'[r].st = "full"
                 /\ \A i \in 1..Len(dispatchLog') : dispatchLog'[i].id # r]_vars

\* C11 witness: a request was rejected as queue-full while the queue holds
\* MAX_QUEUE_SIZE waiting requests.
QueueFullWitness ==
    /\ Len(requestQueue) = MAX_QUEUE_SIZE
    /\ \E r \in 1..MaxReq : reqState[r].st = "full"

\* A step of the processor that starts a loop iteration with requests in
\* the queue: it resumes from a sleep.
ProcessorResumes == sleeping.at # "none" /\ sleeping' # sleeping

\* C12: a request that waited in the queue longer than
\* QUEUE_REQUEST_TIMEOUT_MS is never dispatched: every request dispatched
\* has not passed its expiry; when the processor resumes, every expired
\* request, wherever it stands in the queue, is removed with the timed-out
\* outcome; only expired queued requests time out, and they stay so.
QueueTimeoutDrops ==
    [][/\ \A i \in (Len(dispatchLog) + 1)..Len(dispatchLog') :
             \A k \in 1..Len(requestQueue) :
                 requestQueue[k].id = dispatchLog'[i].id =>
                     now <= requestQueue[k].expiresAt
       /\ ProcessorResumes =>
             \A k \in 1..Len(requestQueue) :
                 requestQueue[k].expiresAt < now =>
                     /\ reqState'[requestQueue[k].id].st = "timedout"
                     /\ \A j \in 1..Len(requestQueue') :
                            requestQueue'[j].id # requestQueue[k].id
       /\ \A r \in 1..MaxReq :
             /\ reqState[r].st = "timedout" => reqState'[r].st = "timedout"
             /\ (reqState'[r].st = "timedout" /\ reqState[r].st # "timedout") =>
                    \E k \in 1..Len(requestQueue) :
                        /\ requestQueue[k].id = r
                        /\ requestQueue[k].expiresAt < now]_vars

\* C12 witness: two requests timed out in the queue together, the second
\* one behind the first, while a request submitted later was dispatched.
QueueTimeoutWitness ==
    /\ \E r \in 1..(MaxReq - 1) :
           reqState[r].st = "timedout" /\ reqState[r + 1].st = "timedout"
    /\ \A i \in 1..Len(dispatchLog) : reqState[dispatchLog[i].id].st # "timedout"

(***************************************************************************)
(* One requestWithDefaults call (request.js 328-437): its executeRequest,  *)
(* from the moment the queue dispatched it.  Times are milliseconds since  *)
(* the dispatch.                                                           *)
(***************************************************************************)
\* The default of the maxRetries parameter; no caller passes another value.
maxRetries == 3

\* How late, at most, a timer of sleep() fires.
MaxLate == 1

\* What request.run gives: a response with a success status, an
\* ApiRequestError (api) carrying the status of a non-success response, or
\* another error that carries no status (a timeout, a connection failure).
\* The status is 0 where there is none.  mentions429: the text of
\* error.message, or of error.detail when the message is empty, contains
\* "429"; the text comes from the vendor's response body (request.js
\* 216-231).  reset is the x-ratelimit-reset header of the failed response.
UpstreamResponses ==
    {[status |-> 200, api |-> FALSE, mentions429 |-> FALSE, reset |-> NoHdr]}
    \cup [status : {401, 429, 500}, api : {TRUE}, mentions429 : BOOLEAN,
          reset : {NoHdr, 2000}]
    \cup [status : {0}, api : {FALSE}, mentions429 : BOOLEAN, reset : {NoHdr}]

NoError == [status |-> 0, api |-> FALSE, mentions429 |-> FALSE, reset |-> NoHdr]

\* The event log of a call: the responses of its attempts ("response"), the
\* results of its token refreshes ("token": status 200, or 0 for a failure)
\* and its sleeps ("sleep", with the delay asked for), each with the value
\* of attemptNumber and the time at which it happened.
Event(ev, resp, c, delay) ==
    [ev |-> ev, status |-> resp.status, api |-> resp.api,
     mentions429 |-> resp.mentions429, reset |-> resp.reset,
     attemptNumber |-> c.attemptNumber, at |-> c.time, delay |-> delay]

\* requestWithDefaults up to the dispatch of executeRequest (request.js
\* 328-337).
NewCall ==
    [pc |-> "run", attemptNumber |-> 0, tokenRefreshed |-> FALSE,
     lastError |-> NoError, outcome |-> "none", time |-> 0, wakeAt |-> 0,
     trace |-> << >>]

\* The test of request.js 404 on attemptNumber.
CanRetryOnce(attemptNumber) == attemptNumber < 1

CanRetry(attemptNumber) == attemptNumber < maxRetries

\* request.js 407.
retryDelayWithoutHeader(resp, attemptNumber) ==
    Min(2 ^ attemptNumber, 60) * 1000

retryDelay(resp, attemptNumber) ==
    IF resp.reset # NoHdr
    THEN resp.reset
    ELSE Min(2 ^ attemptNumber, 60) * 1000

\* The head of the while loop (request.js 341), and what follows the loop
\* (request.js 423-432).
whileLoop(c) ==
    IF c.attemptNumber <= maxRetries
    THEN [c EXCEPT !.pc = "run"]
    ELSE [c EXCEPT !.pc = "thrown", !.outcome = "lastError"]

\* request.js 342-420: request.run has settled with resp.
onResponse(c, resp) ==
    LET logged == [c EXCEPT !.trace = Append(@, Event("response", resp, c, 0))]
        failed == [logged EXCEPT !.lastError = resp]
        isUnauthorizedError == resp.api /\ resp.status = 401
        isRateLimitError == resp.api /\ (resp.status = 429 \/ resp.mentions429)
        delay == retryDelay(resp, c.attemptNumber)
    IN  IF resp.status = 200
        THEN [logged EXCEPT !.pc = "returned", !.outcome = "response"]
        ELSE IF isUnauthorizedError /\ ~c.tokenRefreshed
        THEN [failed EXCEPT !.pc = "token"]
        ELSE IF isRateLimitError /\ CanRetry(c.attemptNumber)
        THEN [failed EXCEPT !.pc = "sleep", !.wakeAt = c.time + delay,
                            !.trace = Append(@, Event("sleep", resp, c, delay))]
        ELSE [failed EXCEPT !.pc = "thrown", !.outcome = "error"]

\* request.js 377-395: getToken(options, true) has settled.
onToken(c, ok) ==
    IF ok
    THEN whileLoop([c EXCEPT
             !.tokenRefreshed = TRUE,
             !.attemptNumber = @ + 1,
             !.trace = Append(@, Event("token",
                           [NoError EXCEPT !.status = 200], c, 0))])
    ELSE [c EXCEPT !.pc = "thrown", !.outcome = "tokenError",
                   !.trace = Append(@, Event("token", NoError, c, 0))]

\* request.js 414-416: the sleep has ended, at time t.
onWake(c, t) == whileLoop([c EXCEPT !.time = t, !.attemptNumber = @ + 1])

UpstreamResponse ==
    /\ call.pc = "run"
    /\ \E resp \in UpstreamResponses : call' = onResponse(call, resp)
    /\ UNCHANGED <<now, storeVars, queueVars, fanout, poll, life, reply>>

TokenResponse ==
    /\ call.pc = "token"
    /\ \E ok \in BOOLEAN : call' = onToken(call, ok)
    /\ UNCHANGED <<now, storeVars, queueVars, fanout, poll, life, reply>>

BackoffEnds ==
    /\ call.pc = "sleep"
    /\ \E late \in 0..MaxLate : call' = onWake(call, call.wakeAt + late)
    /\ UNCHANGED <<now, storeVars, queueVars, fanout, poll, life, reply>>

InitRetry ==
    /\ now = 1
    /\ alertTypesToWatch = DEFAULT_ALERT_TYPES_TO_WATCH
    /\ alerts = << >>
    /\ alertsMap = EmptyMap
    /\ lastAdd = NoAdd
    /\ requestQueue = << >>
    /\ isProcessingQueue = FALSE
    /\ rateLimitState = [limit |-> DEFAULT_LIMIT, remaining |-> DEFAULT_LIMIT,
                         resetAt |-> 0]
    /\ sleeping = [at |-> "none", until |-> 0]
    /\ reqState = [r \in 1..MaxReq |-> [st |-> "new", attemptNumber |-> 0]]
    /\ dispatchLog = << >>
    /\ call = NewCall
    /\ fanout = NoFanOut
    /\ poll = NoPoll
    /\ life = NoLife
    /\ reply = NoReply

NextRetry ==
    \/ UpstreamResponse
    \/ TokenResponse
    \/ BackoffEnds

SpecRetry == InitRetry /\ [][NextRetry]_vars

(***************************************************************************)
(* Properties of executeRequest, checked under SpecRetry.                  *)
(***************************************************************************)
Ended == call.pc \in {"returned", "thrown"}

EventsOf(ev) == {i \in 1..Len(call.trace) : call.trace[i].ev = ev}

Attempts == EventsOf("response")

Refreshes == EventsOf("token")

\* The event that follows event i is the end of the call with error i.
SurfacedAt(i) ==
    /\ i = Len(call.trace)
    /\ call.pc = "thrown"
    /\ call.outcome = "error"
    /\ call.lastError.status = call.trace[i].status

\* C13: a 401 followed by a 200 makes exactly one token refresh and returns
\* the 200 response; a 401 received after the refresh ends the call with that
\* error and no second refresh; a failed refresh ends the call at once with
\* the token error, with no further attempt.
UnauthorizedRefreshedOnce ==
    /\ Cardinality(Refreshes) <= 1
    /\ \A i \in Refreshes :
           /\ call.trace[i - 1].ev = "response" /\ call.trace[i - 1].status = 401
           /\ call.trace[i].status # 200 =>
                  /\ i = Len(call.trace)
                  /\ call.pc = "thrown" /\ call.outcome = "tokenError"
           /\ \A j \in Attempts :
                  (j > i /\ call.trace[j].status = 401) => SurfacedAt(j)
           /\ (/\ i + 1 \in Attempts
               /\ call.trace[i + 1].status = 200
               /\ Cardinality(Attempts) = 2)
              => call.pc = "returned" /\ call.outcome = "response"

\* C14: a call makes at most maxRetries + 1 attempts, one refresh and
\* maxRetries sleeps, whatever it receives; a call that has received only
\* 429 responses keeps retrying until it has made maxRetries + 1 attempts and
\* then ends with the 429 error.
RetriesAreBounded ==
    /\ Cardinality(Attempts) <= maxRetries + 1
    /\ Cardinality(EventsOf("sleep")) <= maxRetries
    /\ Len(call.trace) <= 2 * maxRetries + 2
    /\ call.pc \in {"run", "token", "sleep", "returned", "thrown"}
    /\ (/\ Attempts # {}
        /\ \A i \in Attempts : call.trace[i].status = 429)
       => IF Cardinality(Attempts) = maxRetries + 1
          THEN /\ call.pc = "thrown" /\ call.outcome = "error"
               /\ call.lastError.status = 429
          ELSE call.pc \in {"run", "sleep"}

\* C14 witness: a call that received only 429 responses has ended.
RetriesAreBoundedWitness ==
    /\ Ended
    /\ Attempts # {}
    /\ \A i \in Attempts : call.trace[i].status = 429

\* C15: the sleep before a retry is the x-ratelimit-reset value of the
\* failed response when it carries one (2000 for 2000) and otherwise 1000,
\* 2000, 4000 ms for attemptNumber 0, 1, 2; the next attempt is not made
\* before that delay has passed.
BackoffWaitsLongEnough ==
    \A i \in EventsOf("sleep") :
        LET e == call.trace[i] IN
        /\ e.reset = 2000 => e.delay = 2000
        /\ e.reset = NoHdr =>
               /\ e.attemptNumber \in 0..2
               /\ e.attemptNumber = 0 => e.delay = 1000
               /\ e.attemptNumber = 1 => e.delay = 2000
               /\ e.attemptNumber = 2 => e.delay = 4000
        /\ (i = Len(call.trace) /\ call.pc = "sleep") =>
               call.wakeAt = e.at + e.delay
        /\ \A j \in Attempts : j > i => call.trace[j].at >= e.at + e.delay

\* C15 witness: a call slept on a reset header of 2000 after its first
\* attempt and on the exponential delay of attemptNumber 2 later, and made
\* its last attempt.
BackoffWaitsLongEnoughWitness ==
    /\ Cardinality(Attempts) = maxRetries + 1
    /\ \E i \in EventsOf("sleep") :
           call.trace[i].reset = 2000 /\ call.trace[i].attemptNumber = 0
    /\ \E i \in EventsOf("sleep") :
           call.trace[i].reset = NoHdr /\ call.trace[i].attemptNumber = 2

\* C16: a response with a 5xx status, a timeout or a connection failure
\* ends the call with that error: no attempt follows it.
OnlyRateLimitRetried ==
    \A i \in Attempts : call.trace[i].status \in {500, 0} => SurfacedAt(i)

(***************************************************************************)
(* One requestsInParallel call (request.js 447-473), alone or under        *)
(* searchAlerts and doLookup (searchAlerts.js 18-50, part_000 97-165).     *)
(***************************************************************************)
\* The largest number of requests of a fan-out.
MaxEntities == 2

\* How requestWithDefaults ends for a request: with a response holding
\* alerts, with one holding an empty list, with an upstream error, or with
\* the rejections of queueRequest (request.js 97, 184).
Outcomes == {"alerts", "empty", "upstream", "full", "timedout"}

Failures == {"upstream", "full", "timedout"}

\* body.alerts of the response to the i-th request.
AlertsFor(i, t) ==
    <<[alertId |-> IF i = 1 THEN "A" ELSE "B", alertType |-> "Flash",
       alertTimestamp |-> t]>>

Pending == [state |-> "pending", resultId |-> 0, result |-> "null",
            error |-> "none"]

\* The promise of one request (request.js 453-463): resultId 0 is none; the
\* result "null" is null, and without a resultId the entry is the result.
requestPromiseRethrows(i, withId, k) ==
    [state |-> IF k \in Failures THEN "rejected" ELSE "fulfilled",
     resultId |-> IF withId THEN i ELSE 0,
     result |-> IF k \in Failures THEN "null" ELSE k,
     error |-> "none"]

requestPromise(i, withId, k) ==
    [state |-> "fulfilled",
     resultId |-> IF withId THEN i ELSE 0,
     result |-> IF k \in Failures THEN "null" ELSE k,
     error |-> IF k \in Failures /\ withId THEN k ELSE "none"]

\* negate(isEmpty) on the result of an entry (request.js 469).
Populated(e) == e.result \notin {"null", "empty"}

\* request.js 467-472.
filterResults(results, onlyReturnPopulatedResults) ==
    IF onlyReturnPopulatedResults THEN SelectSeq(results, Populated) ELSE results

\* requestsInParallel is called with n requests.
NewFanOut(caller, n, withId, onlyReturnPopulatedResults) ==
    [pc |-> "pending", caller |-> caller, n |-> n, withId |-> withId,
     onlyReturnPopulatedResults |-> onlyReturnPopulatedResults,
     outcomes |-> [i \in 1..n |-> "pending"],
     promises |-> [i \in 1..n |-> Pending],
     returned |-> << >>,
     cb |-> "none", lookupResults |-> << >>]

\* The requestWithDefaults of request i settles with outcome k.
RequestSettles ==
    /\ fanout.pc = "pending"
    /\ \E i \in 1..fanout.n, k \in Outcomes :
          /\ fanout.promises[i].state = "pending"
          /\ fanout' = [fanout EXCEPT
                 !.outcomes[i] = k,
                 !.promises[i] = requestPromise(i, fanout.withId, k)]
    /\ UNCHANGED <<now, storeVars, queueVars, call, poll, life, reply>>

\* Promise.all (request.js 465): rejected with the first rejection, resolved
\* when every promise is fulfilled; then the filter (request.js 467-472).
PromiseAllSettles ==
    /\ fanout.pc = "pending"
    /\ IF \E i \in 1..fanout.n : fanout.promises[i].state = "rejected"
       THEN fanout' = [fanout EXCEPT !.pc = "rejected"]
       ELSE /\ \A i \in 1..fanout.n : fanout.promises[i].state = "fulfilled"
            /\ fanout' = [fanout EXCEPT
                   !.pc = "resolved",
                   !.returned = filterResults(
                       [i \in 1..fanout.n |-> fanout.promises[i]],
                       fanout.onlyReturnPopulatedResults)]
    /\ UNCHANGED <<now, storeVars, queueVars, call, poll, life, reply>>

\* The alerts of the entries of a search result (part_000 105-112).
RECURSIVE allAlerts(_, _)
allAlerts(returned, t) ==
    IF returned = << >>
    THEN << >>
    ELSE (IF Head(returned).result = "alerts"
          THEN AlertsFor(Head(returned).resultId, t)
          ELSE << >>) \o allAlerts(Tail(returned), t)

\* The lookup result of entity i (part_000 132-154; assembleLookupResults
\* gives null for the same entities).
lookupResult(returned, i) ==
    IF \E j \in 1..Len(returned) :
           returned[j].resultId = i /\ returned[j].result = "alerts"
    THEN "alerts"
    ELSE "null"

\* doLookup after searchAlerts has settled (part_000 102-164).
LookupCallback ==
    /\ fanout.caller = "doLookup"
    /\ fanout.pc \in {"resolved", "rejected"}
    /\ IF fanout.pc = "rejected"
       THEN /\ fanout' = [fanout EXCEPT !.pc = "done", !.cb = "error"]
            /\ UNCHANGED storeVars
       ELSE LET found == allAlerts(fanout.returned, now)
                r == addAlertsToCache(found, alerts, alertsMap,
                                      alertTypesToWatch, now)
            IN  /\ fanout' = [fanout EXCEPT
                       !.pc = "done", !.cb = "results",
                       !.lookupResults = [i \in 1..fanout.n |->
                                             lookupResult(fanout.returned, i)]]
                /\ IF found # << >>
                   THEN /\ alerts' = r.alerts
                        /\ alertsMap' = r.map
                        /\ lastAdd' = [offered |-> r.offered,
                                       rejected |-> r.rejected,
                                       dupes |-> r.dupes, old |-> r.old,
                                       added |-> r.added]
                        /\ UNCHANGED alertTypesToWatch
                   ELSE UNCHANGED storeVars
    /\ UNCHANGED <<now, queueVars, call, poll, life, reply>>

InitFanOut ==
    /\ now = StartTime
    /\ alertTypesToWatch = DEFAULT_ALERT_TYPES_TO_WATCH
    /\ alerts = << >>
    /\ alertsMap = EmptyMap
    /\ lastAdd = NoAdd
    /\ requestQueue = << >>
    /\ isProcessingQueue = FALSE
    /\ rateLimitState = [limit |-> DEFAULT_LIMIT, remaining |-> DEFAULT_LIMIT,
                         resetAt |-> 0]
    /\ sleeping = [at |-> "none", until |-> 0]
    /\ reqState = [r \in 1..MaxReq |-> [st |-> "new", attemptNumber |-> 0]]
    /\ dispatchLog = << >>
    /\ call = NoCall
    /\ poll = NoPoll
    /\ life = NoLife
    /\ reply = NoReply
    /\ \E n \in 1..MaxEntities :
          \/ fanout = NewFanOut("doLookup", n, TRUE, TRUE)
          \/ \E withId \in BOOLEAN, only \in BOOLEAN :
                fanout = NewFanOut("other", n, withId, only)

NextFanOut ==
    \/ RequestSettles
    \/ PromiseAllSettles
    \/ LookupCallback

SpecFanOut == InitFanOut /\ [][NextFanOut]_vars

(***************************************************************************)
(* Properties of the fan-out, checked under SpecFanOut.                    *)
(***************************************************************************)
Resolved == fanout.pc \in {"resolved", "done"} /\ fanout.cb # "error"

EntriesOf(i) ==
    {j \in 1..Len(fanout.returned) :
        IF fanout.withId
        THEN fanout.returned[j].resultId = i
        ELSE fanout.onlyReturnPopulatedResults \/ j = i}

\* C17: a fan-out is never rejected, whatever its requests end with; once
\* it has resolved, every request that succeeded with alerts has its own
\* entry with its result, and every failed request has a null-result entry
\* in its place, or no entry when only populated results are asked for.
FanOutIsolatesFailures ==
    /\ fanout.pc # "rejected"
    /\ \A i \in 1..fanout.n :
           fanout.promises[i].state = "pending" <=> fanout.outcomes[i] = "pending"
    /\ Resolved =>
          /\ ~fanout.onlyReturnPopulatedResults =>
                 Len(fanout.returned) = fanout.n
          /\ Cardinality({j \in 1..Len(fanout.returned) :
                              fanout.returned[j].result = "alerts"})
                 = Cardinality({i \in 1..fanout.n :
                                    fanout.outcomes[i] = "alerts"})
          /\ \A i \in 1..fanout.n :
                /\ fanout.outcomes[i] = "alerts" =>
                       \E j \in EntriesOf(i) :
                           fanout.returned[j].result = "alerts"
                /\ fanout.outcomes[i] \in Failures =>
                       IF fanout.onlyReturnPopulatedResults
                       THEN \A j \in 1..Len(fanout.returned) :
                                /\ fanout.returned[j].result = "alerts"
                                /\ fanout.withId =>
                                       fanout.returned[j].resultId # i
                       ELSE fanout.returned[i].result = "null"

\* C17 witness: a fan-out resolved with a request rejected by the full queue
\* before a request that brought alerts.
FanOutIsolatesFailuresWitness ==
    /\ Resolved
    /\ fanout.n >= 2
    /\ fanout.outcomes[1] = "full"
    /\ fanout.outcomes[2] = "alerts"

\* C18: a lookup with a request rejected by the full queue, or timed out in
\* the queue, calls back with an error.
QueueErrorsReachRequester ==
    (/\ fanout.pc = "done"
     /\ \E i \in 1..fanout.n : fanout.outcomes[i] \in {"full", "timedout"})
    => fanout.cb = "error"

(***************************************************************************)
(* Poll cycles: pollAlerts (pollAlerts.js 33-188) over the getAlerts it    *)
(* calls with an object of parameters (alertProcessor.js 113-215), and the *)
(* polling state of stateManager.js 28-66.  A cursor is a number, 0 for    *)
(* null; lastPollTime 0 is null.                                           *)
(***************************************************************************)
\* The page limit of one polling period.
maxPages == 2

\* The number of poll cycles followed.
MaxCycles == 2

\* The pageSize parameter of the first poll (10, below DEFAULT_PAGE_SIZE).
FIRST_POLL_PAGE_SIZE == 1

\* The query of a getAlerts call (alertProcessor.js 120-136): pageSize 0 is
\* none; the cursor is only sent when no pageSize is given.
queryParams(pageSize, from) ==
    [pageSize |-> IF pageSize > DEFAULT_PAGE_SIZE
                  THEN pageSize ELSE DEFAULT_PAGE_SIZE,
     from |-> IF pageSize = 0 THEN from ELSE 0]

NoQuery == [pageSize |-> 0, from |-> 0]

NoResponse == [kind |-> "none", len |-> 0, next |-> 0, statusCode |-> 0]

\* pollAlerts.js 66 and 82: the cursor kept after a page.
nextCursorOrNull(nextPageCursor, lastCursor) == nextPageCursor

nextCursor(nextPageCursor, lastCursor) ==
    IF nextPageCursor # 0 THEN nextPageCursor ELSE lastCursor

\* pollAlerts.js 91: the page is the last one.
isShortPageNever(len) == FALSE

isShortPage(len) == len < DEFAULT_PAGE_SIZE

\* getPollingState when nothing is stored (stateManager.js 29-36).
DefaultPollingState ==
    [lastCursor |-> 0, lastPollTime |-> 0, alertCount |-> 0,
     totalAlertsProcessed |-> 0]

\* How requestWithDefaults ends for a page request made with cursor c: with
\* a page of len alerts and a next-page cursor (0: none), or with an error,
\* whose statusCode is what `error.statusCode || error.meta.statusCode`
\* gives: 429, another status, or 0 for none (a network error, a rejection
\* by the queue).
PageResponses(c) ==
    [kind : {"page"}, len : 0..DEFAULT_PAGE_SIZE, next : {0, c + 1},
     statusCode : {0}]
    \cup [kind : {"error"}, len : {0}, next : {0}, statusCode : {429, 500, 0}]

\* body.alerts of a page of len alerts.
pageAlerts(len, t) ==
    [i \in 1..len |-> [alertId |-> IF i = 1 THEN "A" ELSE "B",
                       alertType |-> "Flash", alertTimestamp |-> t]]

\* getAlerts (alertProcessor.js 113-215).  The catch returns an empty page
\* for a statusCode of 429; for any other error, the third operand of its
\* test calls message.contains, which no string has, and the catch throws.
getAlerts(resp) ==
    IF resp.kind = "page"
    THEN [threw |-> FALSE, len |-> resp.len, nextPageCursor |-> resp.next]
    ELSE IF resp.statusCode = 429
    THEN [threw |-> FALSE, len |-> 0, nextPageCursor |-> 0]
    ELSE [threw |-> TRUE, len |-> 0, nextPageCursor |-> 0]

\* The catch of pollAlerts (pollAlerts.js 150-187): both its branches read
\* pageCount and totalAlertsProcessed, which are declared by let inside the
\* try block and are not in scope; the catch throws a ReferenceError and
\* pollAlerts rejects.
catchBlock(p) == [p EXCEPT !.pc = "idle", !.result = "rejected"]

\* pollAlerts.js 124-148: updatePollingState and the result.
finishCycle(p, t) ==
    [p EXCEPT
        !.pc = "idle",
        !.result = "success",
        !.pollingState = [lastCursor |-> p.lastCursor,
                          lastPollTime |-> t,
                          alertCount |-> p.totalAlertsProcessed,
                          totalAlertsProcessed |->
                              p.state.totalAlertsProcessed + p.totalAlertsProcessed]]

\* The head of the paging loop (pollAlerts.js 76-77), and what follows the
\* loop.
pagingLoop(p, t) ==
    IF p.continuePaging /\ p.pageCount < maxPages
    THEN [p EXCEPT !.pc = "fetch", !.pageCount = @ + 1,
                   !.query = queryParams(0, p.lastCursor)]
    ELSE finishCycle(p, t)

\* pollAlerts up to its first await (pollAlerts.js 33-57, 68-80).
startPoll(p, t) ==
    LET state == p.pollingState
        isFirstPoll == state.lastPollTime = 0
        locals == [p EXCEPT
                      !.cycles = @ + 1,
                      !.state = state,
                      !.isFirstPoll = isFirstPoll,
                      !.totalAlertsProcessed = 0,
                      !.lastCursor = IF isFirstPoll THEN 0 ELSE state.lastCursor,
                      !.continuePaging = ~isFirstPoll,
                      !.pageCount = 0,
                      !.failed = FALSE,
                      !.result = "none"]
    IN  IF isFirstPoll
        THEN [locals EXCEPT !.pc = "fetch", !.pageCount = 1,
                            !.query = queryParams(FIRST_POLL_PAGE_SIZE, 0)]
        ELSE pagingLoop(locals, t)

\* pollAlerts after `await getAlerts` gave the page r (pollAlerts.js 57-67,
\* 80-110).
afterPage(p, r, t) ==
    LET paged == [p EXCEPT
                     !.lastCursor = nextCursor(r.nextPageCursor, @),
                     !.totalAlertsProcessed = @ + r.len]
    IN  IF p.isFirstPoll
        THEN finishCycle(paged, t)
        ELSE IF isShortPage(r.len)
        THEN finishCycle([paged EXCEPT !.continuePaging = FALSE], t)
        ELSE [paged EXCEPT !.pc = "sleep"]

NewPoll ==
    [pc |-> "idle", pollingState |-> DefaultPollingState, cycles |-> 0,
     state |-> DefaultPollingState, isFirstPoll |-> TRUE,
     totalAlertsProcessed |-> 0, lastCursor |-> 0, continuePaging |-> FALSE,
     pageCount |-> 0, failed |-> FALSE, result |-> "none",
     query |-> NoQuery, response |-> NoResponse]

\* The scheduler calls pollAlerts.
StartPoll ==
    /\ poll.pc = "idle"
    /\ poll.cycles < MaxCycles
    /\ poll' = startPoll(poll, now)
    /\ UNCHANGED <<now, storeVars, queueVars, call, fanout, life, reply>>

\* The getAlerts call of the cycle settles.  processAlerts runs up to its
\* first await inside this step: it adds the page to the cache
\* (alertProcessor.js 21).
GetAlertsSettles ==
    /\ poll.pc = "fetch"
    /\ \E resp \in PageResponses(poll.lastCursor) :
          LET r == getAlerts(resp)
              noted == [poll EXCEPT !.failed = @ \/ resp.kind = "error",
                                    !.response = resp]
              added == addAlertsToCache(pageAlerts(r.len, now), alerts,
                                        alertsMap, alertTypesToWatch, now)
          IN  IF r.threw
              THEN /\ poll' = catchBlock(noted)
                   /\ UNCHANGED storeVars
              ELSE /\ poll' = afterPage(noted, r, now)
                   /\ IF r.len > 0
                      THEN /\ alerts' = added.alerts
                           /\ alertsMap' = added.map
                           /\ lastAdd' = [offered |-> added.offered,
                                          rejected |-> added.rejected,
                                          dupes |-> added.dupes,
                                          old |-> added.old,
                                          added |-> added.added]
                           /\ UNCHANGED alertTypesToWatch
                      ELSE UNCHANGED storeVars
    /\ UNCHANGED <<now, queueVars, call, fanout, life, reply>>

\* The delay between two pages ends (pollAlerts.js 104-106).
PageDelayEnds ==
    /\ poll.pc = "sleep"
    /\ poll' = pagingLoop(poll, now)
    /\ UNCHANGED <<now, storeVars, queueVars, call, fanout, life, reply>>

InitPoll ==
    /\ now = StartTime
    /\ alertTypesToWatch = DEFAULT_ALERT_TYPES_TO_WATCH
    /\ alerts = << >>
    /\ alertsMap = EmptyMap
    /\ lastAdd = NoAdd
    /\ requestQueue = << >>
    /\ isProcessingQueue = FALSE
    /\ rateLimitState = [limit |-> DEFAULT_LIMIT, remaining |-> DEFAULT_LIMIT,
                         resetAt |-> 0]
    /\ sleeping = [at |-> "none", until |-> 0]
    /\ reqState = [r \in 1..MaxReq |-> [st |-> "new", attemptNumber |-> 0]]
    /\ dispatchLog = << >>
    /\ call = NoCall
    /\ fanout = NoFanOut
    /\ poll = NewPoll
    /\ life = NoLife
    /\ reply = NoReply

NextPoll ==
    \/ StartPoll
    \/ GetAlertsSettles
    \/ PageDelayEnds
    \/ Tick

SpecPoll == InitPoll /\ [][NextPoll]_vars

(***************************************************************************)
(* Properties of the poll cycle, checked under SpecPoll.                   *)
(***************************************************************************)
\* A cycle has ended after a vendor call of it failed.
FailedCycleEnded == poll.pc = "idle" /\ poll.failed

\* C19: pollAlerts never rejects, and a cycle in which the vendor call
\* failed resolves with success false.
PollNeverThrows ==
    /\ poll.result # "rejected"
    /\ FailedCycleEnded => poll.result = "failure"

\* C20: after a cycle in which a vendor call failed, the stored polling
\* state is the one the cycle started from.
FailedCyclePreservesState ==
    FailedCycleEnded => poll.pollingState = poll.state

\* A step in which pollAlerts issues a page request, and one in which the
\* page request in flight is answered without pollAlerts rejecting.
IssuesRequest == poll.pc # "fetch" /\ poll'.pc = "fetch"

HandlesPage == poll.pc = "fetch" /\ poll'.pc # "fetch" /\ poll'.result # "rejected"

\* C21: the first request of a poll after the first one carries the cursor
\* stored by the previous successful poll, which is the next-page cursor of
\* that poll's last response that had one; within a cycle each request
\* carries the cursor kept from the previous page; a response without a
\* next-page cursor keeps the cursor, and a stored cursor never becomes null.
CursorResumes ==
    [][/\ HandlesPage =>
             poll'.lastCursor =
                 IF poll'.response.kind = "page" /\ poll'.response.next # 0
                 THEN poll'.response.next
                 ELSE poll.lastCursor
       /\ (poll.pc # "idle" /\ poll'.pc = "idle" /\ poll'.result = "success") =>
             poll'.pollingState.lastCursor = poll'.lastCursor
       /\ IssuesRequest =>
             poll'.query.from =
                 IF poll'.isFirstPoll THEN 0
                 ELSE IF poll.pc = "idle" THEN poll.pollingState.lastCursor
                 ELSE poll.lastCursor
       /\ poll.pollingState.lastCursor # 0 =>
             poll'.pollingState.lastCursor # 0]_vars

\* C21 witness: the second poll, started from the cursor 1 that the first
\* poll's response returned, asks for its second page with the cursor 2 of
\* its first page.
CursorResumesWitness ==
    /\ poll.cycles = 2
    /\ poll.state.lastCursor = 1
    /\ poll.pc = "fetch"
    /\ poll.pageCount = 2
    /\ poll.query.from = 2

\* C23: a cycle makes at most maxPages page requests (one in the first
\* poll), every request being counted by pageCount, and a page with fewer
\* alerts than the page size asked for ends the cycle: no request follows
\* it.
PagingIsBounded ==
    [][/\ poll'.pageCount <= maxPages
       /\ poll'.isFirstPoll => poll'.pageCount <= 1
       /\ IssuesRequest =>
             poll'.pageCount = (IF poll.pc = "idle" THEN 0 ELSE poll.pageCount) + 1
       /\ (/\ HandlesPage
           /\ poll'.response.kind = "page"
           /\ poll'.response.len < poll.query.pageSize)
          => poll'.pc = "idle" /\ poll'.result = "success"]_vars

\* C23 witness: a cycle ended at the page limit, its last page being full.
PagingIsBoundedWitness ==
    /\ poll.pc = "idle"
    /\ poll.result = "success"
    /\ poll.pageCount = maxPages
    /\ poll.response.kind = "page"
    /\ poll.response.len = poll.query.pageSize

(***************************************************************************)
(* The life cycle of polling: initializePolling, its timers and shutdown,  *)
(* in the two versions of the integration module (integration.js 36-75,    *)
(* 156-163, 176-179, and part_000 49-88, 187-200, 269-272), over the two   *)
(* versions of pollAlerts (pollAlerts.js 33-188, without a busy flag, and  *)
(* 198-271, with isPollingAlertsInProgress).  A poll cycle is abstracted   *)
(* to its start and its end.                                               *)
(***************************************************************************)
\* The number of onMessage requests followed.
MaxMsg == 2

\* The number of shutdown() calls followed.
MaxShutdowns == 1

\* The number of poll cycles in progress beyond which timer ticks are no
\* longer followed.
MaxOverlap == 2

\* The module after load (integration.js 25-27, part_000 37-39).  A timer
\* is named by the request whose initializePolling created it; 0 is null.
\* cycles[o] counts the poll cycles in progress started by the
\* initializePolling of request o (awaited by it in integration.js), or, for
\* o = 0, started without being awaited.  epoch is the number of shutdowns
\* before a request arrived.
NewLife(variant, pollVariant, credentials) ==
    [pc |-> "loaded", variant |-> variant, pollVariant |-> pollVariant,
     credentials |-> credentials,
     pollingInitialized |-> FALSE,
     alertPollingInterval |-> 0, listsPollingInterval |-> 0,
     timers |-> {},
     msgs |-> [r \in 1..MaxMsg |-> [pc |-> "new", epoch |-> 0]],
     cycles |-> [o \in 0..MaxMsg |-> 0],
     isPollingAlertsInProgress |-> FALSE,
     shutdowns |-> 0, resets |-> 0]

RECURSIVE SumTo(_, _)
SumTo(f, n) == IF n < 0 THEN 0 ELSE f[n] + SumTo(f, n - 1)

\* The poll cycles in progress.
CyclesInProgress(l) == SumTo(l.cycles, MaxMsg)

\* A call of pollAlerts for owner o, up to its first await: the zip version
\* returns at once when a cycle is in progress (pollAlerts.js 207-208).
callPollAlerts(l, o) ==
    IF l.pollVariant = "zip" /\ l.isPollingAlertsInProgress
    THEN l
    ELSE [l EXCEPT !.cycles[o] = @ + 1,
                   !.isPollingAlertsInProgress = (l.pollVariant = "zip")]

\* integration.js 61-74: what initializePolling does after its
\* `await pollAlerts`.
afterInitialPoll(l, r) ==
    [l EXCEPT !.timers = @ \cup {[owner |-> r, kind |-> "alerts"]},
              !.alertPollingInterval = r,
              !.pollingInitialized = TRUE,
              !.msgs[r].pc = "handling"]

\* initializePolling for request r, up to its first await or its end.
initializePolling(l, r) ==
    IF l.pollingInitialized \/ ~l.credentials
    THEN [l EXCEPT !.msgs[r].pc = "handling"]
    ELSE LET reset == [l EXCEPT !.resets = @ + 1] IN
         IF l.variant = "part_000"
         THEN [callPollAlerts(reset, 0) EXCEPT
                  !.timers = @ \cup {[owner |-> r, kind |-> "alerts"],
                                     [owner |-> r, kind |-> "lists"]},
                  !.alertPollingInterval = r,
                  !.listsPollingInterval = r,
                  !.pollingInitialized = TRUE,
                  !.msgs[r].pc = "handling"]
         ELSE LET polled == callPollAlerts(reset, r) IN
              IF polled.cycles[r] > 0
              THEN [polled EXCEPT !.msgs[r].pc = "initialPoll"]
              ELSE afterInitialPoll(polled, r)

\* shutdown (integration.js 156-163, part_000 187-200).
shutdown(l) ==
    IF l.variant = "part_000"
    THEN [l EXCEPT
             !.timers = @ \ {t \in @ :
                 \/ t.kind = "alerts" /\ t.owner = l.alertPollingInterval
                 \/ t.kind = "lists" /\ t.owner = l.listsPollingInterval},
             !.alertPollingInterval = 0,
             !.listsPollingInterval = 0,
             !.pollingInitialized = FALSE,
             !.shutdowns = @ + 1]
    ELSE IF l.alertPollingInterval # 0
    THEN [l EXCEPT
             !.timers = @ \ {[owner |-> l.alertPollingInterval,
                              kind |-> "alerts"]},
             !.alertPollingInterval = 0,
             !.pollingInitialized = FALSE,
             !.shutdowns = @ + 1]
    ELSE [l EXCEPT !.shutdowns = @ + 1]

LifeFrame == UNCHANGED <<now, storeVars, queueVars, call, fanout, poll, reply>>

\* A request arrives: onMessage up to the end of the synchronous part of
\* initializePolling.
OnMessage ==
    /\ \E r \in 1..MaxMsg :
          /\ life.msgs[r].pc = "new"
          /\ \A q \in 1..(r - 1) : life.msgs[q].pc # "new"
          /\ life' = initializePolling(
                         [life EXCEPT !.msgs[r].epoch = life.shutdowns], r)
    /\ LifeFrame

\* A poll cycle ends, by a return or by a rejection, which the caller's
\* try/catch absorbs (integration.js 55-59); the initializePolling that
\* awaited it goes on.
PollCycleEnds ==
    /\ \E o \in 0..MaxMsg :
          /\ life.cycles[o] > 0
          /\ LET ended == [life EXCEPT !.cycles[o] = @ - 1,
                                       !.isPollingAlertsInProgress = FALSE]
             IN  life' = IF o # 0 THEN afterInitialPoll(ended, o) ELSE ended
    /\ LifeFrame

\* A timer of setInterval fires for the alerts poll.
TimerTick ==
    /\ CyclesInProgress(life) < MaxOverlap
    /\ \E t \in life.timers :
          /\ t.kind = "alerts"
          /\ life' = callPollAlerts(life, 0)
    /\ LifeFrame

\* onMessage handles the action of the request and calls back.
Answer ==
    /\ \E r \in 1..MaxMsg :
          /\ life.msgs[r].pc = "handling"
          /\ life' = [life EXCEPT !.msgs[r].pc = "answered"]
    /\ LifeFrame

Shutdown ==
    /\ life.shutdowns < MaxShutdowns
    /\ life' = shutdown(life)
    /\ LifeFrame

InitLife ==
    /\ now = StartTime
    /\ alertTypesToWatch = DEFAULT_ALERT_TYPES_TO_WATCH
    /\ alerts = << >>
    /\ alertsMap = EmptyMap
    /\ lastAdd = NoAdd
    /\ requestQueue = << >>
    /\ isProcessingQueue = FALSE
    /\ rateLimitState = [limit |-> DEFAULT_LIMIT, remaining |-> DEFAULT_LIMIT,
                         resetAt |-> 0]
    /\ sleeping = [at |-> "none", until |-> 0]
    /\ reqState = [r \in 1..MaxReq |-> [st |-> "new", attemptNumber |-> 0]]
    /\ dispatchLog = << >>
    /\ call = NoCall
    /\ fanout = NoFanOut
    /\ poll = NoPoll
    /\ reply = NoReply
    /\ \E variant \in {"integration", "part_000"},
          pollVariant \in {"cursor", "zip"}, credentials \in BOOLEAN :
          life = NewLife(variant, pollVariant, credentials)

NextLife ==
    \/ OnMessage
    \/ PollCycleEnds
    \/ TimerTick
    \/ Answer
    \/ Shutdown

SpecLife == InitLife /\ [][NextLife]_vars

(***************************************************************************)
(* Properties of the life cycle, checked under SpecLife.                   *)
(***************************************************************************)
TimersOf(kind) == {t \in life.timers : t.kind = kind}

\* C22: at most one alerts poll cycle is in progress, and the busy flag is
\* set only while one is.
AtMostOnePollCycle ==
    /\ CyclesInProgress(life) <= 1
    /\ life.isPollingAlertsInProgress => CyclesInProgress(life) = 1

\* C25: with credentials at most one alerts timer and one lists timer are
\* active and the polling state is reset once per shutdown epoch; without
\* credentials there is no timer and polling is not initialised.
InitializedExactlyOnce ==
    /\ Cardinality(TimersOf("alerts")) <= 1
    /\ Cardinality(TimersOf("lists")) <= 1
    /\ life.resets <= life.shutdowns + 1
    /\ ~life.credentials => life.timers = {} /\ ~life.pollingInitialized

\* C26: every active timer, and the initialised mark, are the work of a
\* request that arrived after the last shutdown.
ShutdownStopsPolling ==
    /\ \A t \in life.timers : life.msgs[t.owner].epoch = life.shutdowns
    /\ life.pollingInitialized =>
           \E r \in 1..MaxMsg :
               /\ life.msgs[r].pc # "new"
               /\ life.msgs[r].epoch = life.shutdowns

\* C27: no request waits for the initial poll before it is answered.
NoRequestWaitsForInitialPoll ==
    \A r \in 1..MaxMsg : life.msgs[r].pc # "initialPoll"

(***************************************************************************)
(* The zip version of the poll cycle: pollAlerts (pollAlerts.js 205-271)   *)
(* over getAlerts and extractAlertsFromZipBuffer (part_005 14-83).  An     *)
(* archive is the sequence of its entries; an entry name is an optional    *)
(* directory, a stem and an extension, the stem being a number when it is  *)
(* made of digits only and NoHdr otherwise.  The names of the model are    *)
(* x.json, 1.json, 2.json, 3.json, 2.jsonl, 3.txt and d/3.json.            *)
(***************************************************************************)
ZipEntries ==
    {e \in [dir : BOOLEAN, stem : {NoHdr, 1, 2, 3},
            ext : {"json", "jsonl", "txt"}] :
        /\ e.dir => (e.stem = 3 /\ e.ext = "json")
        /\ e.ext = "jsonl" => e.stem = 2
        /\ e.ext = "txt" => e.stem = 3}

Archives == {<< >>} \cup [1..1 -> ZipEntries] \cup [1..2 -> ZipEntries]

\* What requestWithDefaults gives: a zip archive, whose JSON entries hold
\* len alerts in all, or an error.
ZipResponses ==
    [kind : {"zip"}, archive : Archives, len : 0..1]
    \cup [kind : {"error"}, archive : {<< >>}, len : {0}]

\* part_005 14-19: the number of a name ^(\d+)\.(jsonl?)$, else null (NoHdr).
parseEntryNumber(e) ==
    IF ~e.dir /\ e.stem # NoHdr /\ e.ext \in {"json", "jsonl"}
    THEN e.stem
    ELSE NoHdr

\* part_005 31-33: the entries whose name ends in .json or .jsonl.
jsonEntries(archive) ==
    SelectSeq(archive, LAMBDA e : e.ext \in {"json", "jsonl"})

keepLatest(num, maxSince) == IF num # NoHdr THEN num ELSE maxSince

\* part_005 40-41: a number larger than the largest so far replaces it.
keepLarger(num, maxSince) ==
    IF num # NoHdr /\ num > maxSince THEN num ELSE maxSince

\* part_005 38-46: the loop over the JSON entries.
RECURSIVE maxSinceOf(_, _)
maxSinceOf(entries, maxSince) ==
    IF entries = << >>
    THEN maxSince
    ELSE maxSinceOf(Tail(entries),
                    keepLarger(parseEntryNumber(Head(entries)), maxSince))

\* getAlerts of part_005 56-83, with extractAlertsFromZipBuffer: it throws
\* on an error of the request and on an archive without JSON entry.
getAlertsZip(resp) ==
    IF resp.kind = "error" \/ jsonEntries(resp.archive) = << >>
    THEN [threw |-> TRUE, len |-> 0, maxSince |-> 0]
    ELSE [threw |-> FALSE, len |-> resp.len,
          maxSince |-> maxSinceOf(jsonEntries(resp.archive), 0)]

DefaultZipState ==
    [lastPollTime |-> 0, alertCount |-> 0, totalAlertsProcessed |-> 0,
     lastSince |-> 0]

NewZipPoll ==
    [pc |-> "idle", pollingState |-> DefaultZipState, cycles |-> 0,
     isPollingAlertsInProgress |-> FALSE, state |-> DefaultZipState,
     since |-> 0, result |-> "none",
     response |-> [kind |-> "none", archive |-> << >>, len |-> 0]]

\* pollAlerts up to its await (pollAlerts.js 205-217).
startZipPoll(p) ==
    IF p.isPollingAlertsInProgress
    THEN p
    ELSE [p EXCEPT !.pc = "fetch",
                   !.cycles = @ + 1,
                   !.isPollingAlertsInProgress = TRUE,
                   !.state = p.pollingState,
                   !.since = p.pollingState.lastSince,
                   !.result = "none"]

\* pollAlerts after its await (pollAlerts.js 217-269).
afterZip(p, r, t) ==
    IF r.threw
    THEN [p EXCEPT !.pc = "idle", !.isPollingAlertsInProgress = FALSE,
                   !.result = "failure"]
    ELSE [p EXCEPT
             !.pc = "idle",
             !.isPollingAlertsInProgress = FALSE,
             !.result = "success",
             !.pollingState =
                 [lastPollTime |-> t,
                  alertCount |-> r.len,
                  totalAlertsProcessed |-> p.state.totalAlertsProcessed + r.len,
                  lastSince |-> r.maxSince]]

ZipFrame == UNCHANGED <<queueVars, call, fanout, life, reply>>

\* The timer, or initializePolling, calls pollAlerts.
StartZipPoll ==
    /\ poll.cycles < MaxCycles
    /\ poll' = startZipPoll(poll)
    /\ UNCHANGED <<now, storeVars>>
    /\ ZipFrame

\* The request of the cycle settles; processAlerts adds the alerts to the
\* cache (alertProcessor.js 21).
ZipResponse ==
    /\ poll.pc = "fetch"
    /\ \E resp \in ZipResponses :
          LET r == getAlertsZip(resp)
              added == addAlertsToCache(pageAlerts(r.len, now), alerts,
                                        alertsMap, alertTypesToWatch, now)
          IN  /\ poll' = afterZip([poll EXCEPT !.response = resp], r, now)
              /\ IF r.len > 0
                 THEN /\ alerts' = added.alerts
                      /\ alertsMap' = added.map
                      /\ lastAdd' = [offered |-> added.offered,
                                     rejected |-> added.rejected,
                                     dupes |-> added.dupes,
                                     old |-> added.old,
                                     added |-> added.added]
                      /\ UNCHANGED alertTypesToWatch
                 ELSE UNCHANGED storeVars
    /\ UNCHANGED now
    /\ ZipFrame

InitZip ==
    /\ now = StartTime
    /\ alertTypesToWatch = DEFAULT_ALERT_TYPES_TO_WATCH
    /\ alerts = << >>
    /\ alertsMap = EmptyMap
    /\ lastAdd = NoAdd
    /\ requestQueue = << >>
    /\ isProcessingQueue = FALSE
    /\ rateLimitState = [limit |-> DEFAULT_LIMIT, remaining |-> DEFAULT_LIMIT,
                         resetAt |-> 0]
    /\ sleeping = [at |-> "none", until |-> 0]
    /\ reqState = [r \in 1..MaxReq |-> [st |-> "new", attemptNumber |-> 0]]
    /\ dispatchLog = << >>
    /\ call = NoCall
    /\ fanout = NoFanOut
    /\ life = NoLife
    /\ reply = NoReply
    /\ poll = NewZipPoll

NextZip ==
    \/ StartZipPoll
    \/ ZipResponse

SpecZip == InitZip /\ [][NextZip]_vars

(***************************************************************************)
(* Properties of the zip poll cycle, checked under SpecZip.                *)
(***************************************************************************)
\* The numeric entry names of an archive: the numbers n of its entries
\* named n.json or n.jsonl.
NumericNames(archive) ==
    {archive[i].stem : i \in {j \in 1..Len(archive) :
        /\ ~archive[j].dir
        /\ archive[j].stem # NoHdr
        /\ archive[j].ext \in {"json", "jsonl"}}}

\* C24: a cycle sends since = the stored lastSince, which is 0 before the
\* first successful cycle; a successful cycle on an archive with numeric
\* entry names stores the largest of them as lastSince; a failed cycle
\* leaves the stored state, lastSince included, as it was.
SinceIsLastWatermark ==
    [][/\ (poll.pc = "idle" /\ poll'.pc = "fetch") =>
             /\ poll'.since = poll.pollingState.lastSince
             /\ poll.cycles = 0 => poll'.since = 0
       /\ (poll.pc = "fetch" /\ poll'.result = "success") =>
             \A n \in NumericNames(poll'.response.archive) :
                 /\ poll'.pollingState.lastSince >= n
                 /\ poll'.pollingState.lastSince
                        \in NumericNames(poll'.response.archive)
       /\ (poll.pc = "fetch" /\ poll'.result = "failure") =>
             poll'.pollingState = poll.pollingState]_vars

\* C24 witness: the second cycle sends since = 3, the largest name of the
\* archive <<3.json, 1.json>> of the first cycle.
SinceIsLastWatermarkWitness ==
    /\ poll.cycles = 2
    /\ poll.pc = "fetch"
    /\ poll.since = 3
    /\ poll.response.kind = "zip"
    /\ Len(poll.response.archive) = 2
    /\ poll.response.archive[1].stem = 3
    /\ poll.response.archive[2].stem = 1

(***************************************************************************)
(* The getAlerts and getAlertById requests of onMessage (part_000 284-402) *)
(* over getCachedAlerts (stateManager.js 110-164, with the list filter of  *)
(* part_006 100-173) and over getAlerts and getAlertById of                *)
(* alertProcessor.js, one request at a time, while polls go on adding      *)
(* alerts to the store and the clock advances.                             *)
(***************************************************************************)
MaxCount == 2

\* alert.listsMatched: in the model the alert A is on the list L1, no other
\* alert is on a list.
listsMatched(a) == IF a.alertId = "A" THEN {"L1"} ELSE {}

\* parseListConfig(options.setListsToWatch): no list, or the list L1.
ListIds == {{}, {"L1"}}

\* options.setAlertTypesToWatch: not set, or Urgent alone.
OptionTypes == {{}, {"Urgent"}}

\* The filter of part_006 146-165 on listIds.
matchesLists(a, listIds) == listIds = {} \/ listsMatched(a) \cap listIds # {}

\* getCachedAlerts(listIds, alertFilterTimestamp) of part_006 100-173.
getCachedAlertsOfLists(seq, listIds, since, t) ==
    LET r == getCachedAlerts(seq, since, t) IN
    [result |-> SelectSeq(r.result, LAMBDA a : matchesLists(a, listIds)),
     alerts |-> r.alerts]

\* createAlertTypeFilter (part_000 207-255)
createAlertTypeFilter(types, a) ==
    LET alertTypesSet ==
            getAlertTypesToWatchSet(IF types # {} THEN types
                                    ELSE DEFAULT_ALERT_TYPES_TO_WATCH)
    IN  alertTypesSet = {} \/ FilterName(a) \in alertTypesSet

\* Array.prototype.slice(0, n)
Slice(s, n) == SubSeq(s, 1, Min(n, Len(s)))

\* effectivePageSize of getAlerts (alertProcessor.js 120-125)
effectivePageSize(pageSize) ==
    IF pageSize > DEFAULT_PAGE_SIZE THEN pageSize ELSE DEFAULT_PAGE_SIZE

\* What the vendor answers to the page request: a page, a 429, or another
\* failure; to the request for one alert: the alert, a 404, an empty body,
\* or another failure.
VendorAlerts(t) ==
    {a \in PageAlerts(t) : a.alertId # "" /\ a.alertTimestamp # 0}

PageReplies(t) ==
    [kind : {"ok"},
     alerts : UNION {[1..n -> VendorAlerts(t)] : n \in 0..DEFAULT_PAGE_SIZE}]
    \cup [kind : {"429", "error"}, alerts : {<< >>}]

AlertReplies(t) ==
    [kind : {"ok"}, alerts : {<<a>> : a \in VendorAlerts(t)}]
    \cup [kind : {"404", "empty", "error"}, alerts : {<< >>}]

NewReply(action) ==
    [pc |-> "handling", action |-> action, sinceTimestamp |-> 0, count |-> 0,
     listIds |-> {}, types |-> {}, alertId |-> "", requests |-> 0,
     pageSize |-> 0, vendor |-> "none", alerts |-> << >>, alert |-> << >>,
     message |-> "", error |-> FALSE]

\* cb(null, {alerts, count: alerts.length, lastAlertTimestamp}) of part_000
\* 348-352, after the slice of 343-346.
answerAlerts(r, found) ==
    [r EXCEPT !.pc = "answered",
              !.alerts = IF r.count # 0 THEN Slice(found, r.count) ELSE found]

\* The getAlerts case of onMessage up to its await, or to its callback
\* (part_000 284-316, 343-352).
onGetAlerts(r, seq, t) ==
    LET alertFilterTimestamp ==
            IF r.count # 0 THEN 0
            ELSE IF r.sinceTimestamp # 0 THEN r.sinceTimestamp ELSE t
        cached == getCachedAlertsOfLists(seq, r.listIds, alertFilterTimestamp, t)
        found == SelectSeq(cached.result,
                           LAMBDA a : createAlertTypeFilter(r.types, a))
    IN  [alerts |-> cached.alerts,
         reply |-> IF r.count # 0 /\ Len(found) < r.count
                   THEN [r EXCEPT !.pc = "fetch",
                                  !.requests = @ + 1,
                                  !.pageSize = effectivePageSize(r.count),
                                  !.alerts = found]
                   ELSE answerAlerts(r, found)]

\* The getAlerts case after its await (part_000 313-352, with the catch of
\* getAlerts, alertProcessor.js 181-214): a 429 is answered by an empty
\* page; any other failure ends in the callback with an error.
afterGetAlerts(r, resp) ==
    CASE resp.kind = "error" -> [r EXCEPT !.pc = "answered", !.error = TRUE,
                                          !.alerts = << >>]
      [] OTHER ->
            answerAlerts(r, SelectSeq(resp.alerts,
                               LAMBDA a : createAlertTypeFilter(r.types, a)))

\* getAlertById up to its await, or to its return (alertProcessor.js
\* 225-265): the stored alert with this id that getCachedAlerts returns.
findCachedAlert(seq, listIds, alertId, t) ==
    LET cached == getCachedAlertsOfLists(seq, listIds, 0, t)
        hits == SelectSeq(cached.result, LAMBDA a : a.alertId = alertId)
    IN  [alerts |-> cached.alerts,
         cachedAlert |-> IF hits = << >> THEN << >> ELSE <<Head(hits)>>]

\* The callbacks of the getAlertById case (part_000 377-401).
answerAlert(r, alert, threw) ==
    IF threw
    THEN [r EXCEPT !.pc = "answered", !.error = TRUE]
    ELSE [r EXCEPT !.pc = "answered", !.alert = alert,
                   !.message = IF alert = << >> THEN "Alert not found" ELSE ""]

ReplyFrame == UNCHANGED <<queueVars, call, fanout, poll, life>>

StoreAs(added) ==
    /\ alerts' = added.alerts
    /\ alertsMap' = added.map
    /\ lastAdd' = [offered |-> added.offered, rejected |-> added.rejected,
                   dupes |-> added.dupes, old |-> added.old,
                   added |-> added.added]

\* A poll cycle adds an alert to the store (alertProcessor.js 21).  The
\* callback of a request is invoked in the step that answers it: nothing
\* runs between the two.
PollAdmits ==
    /\ reply.pc # "answered"
    /\ \E a \in VendorAlerts(now) : Admit(<<a>>)

ClockAdvances ==
    /\ reply.pc # "answered"
    /\ Tick

\* cb(...) has returned: the request is over.
CallbackReturns ==
    /\ reply.pc = "answered"
    /\ reply' = NoReply
    /\ UNCHANGED <<now, storeVars>>
    /\ ReplyFrame

\* onMessage({action: 'getAlerts', sinceTimestamp, count}).
OnGetAlerts ==
    /\ reply.pc = "none"
    /\ \E since \in 0..now, count \in 0..MaxCount, listIds \in ListIds,
          types \in OptionTypes :
          LET r == onGetAlerts([NewReply("getAlerts") EXCEPT
                                   !.sinceTimestamp = since, !.count = count,
                                   !.listIds = listIds, !.types = types],
                               alerts, now)
          IN  /\ reply' = r.reply
              /\ alerts' = r.alerts
    /\ lastAdd' = NoAdd
    /\ UNCHANGED <<now, alertTypesToWatch, alertsMap>>
    /\ ReplyFrame

\* The page request of the getAlerts case settles.
CountQuerySettles ==
    /\ reply.pc = "fetch"
    /\ \E resp \in PageReplies(now) :
          /\ Len(alerts) + Len(resp.alerts) <= MaxStore
          /\ reply' = afterGetAlerts([reply EXCEPT !.vendor = resp.kind], resp)
          /\ IF Len(resp.alerts) > 0
             THEN StoreAs(addAlertsToCache(resp.alerts, alerts, alertsMap,
                                           alertTypesToWatch, now))
             ELSE /\ lastAdd' = NoAdd
                  /\ UNCHANGED <<alerts, alertsMap>>
    /\ UNCHANGED <<now, alertTypesToWatch>>
    /\ ReplyFrame

\* onMessage({action: 'getAlertById', alertId}): a stored alert is answered
\* at once, and stored again (part_000 377-385).
OnGetAlertById ==
    /\ reply.pc = "none"
    /\ \E alertId \in AlertIds, listIds \in ListIds :
          LET r == [NewReply("getAlertById") EXCEPT !.alertId = alertId,
                                                     !.listIds = listIds]
              f == findCachedAlert(alerts, listIds, alertId, now)
          IN  IF alertId = ""
              THEN /\ reply' = answerAlert(r, << >>, TRUE)
                   /\ lastAdd' = NoAdd
                   /\ UNCHANGED <<alerts, alertsMap>>
              ELSE IF f.cachedAlert # << >>
              THEN /\ reply' = answerAlert(r, f.cachedAlert, FALSE)
                   /\ StoreAs(addAlertsToCache(f.cachedAlert, f.alerts,
                                  alertsMap, alertTypesToWatch, now))
              ELSE /\ reply' = [r EXCEPT !.pc = "fetchById", !.requests = @ + 1]
                   /\ alerts' = f.alerts
                   /\ lastAdd' = NoAdd
                   /\ UNCHANGED alertsMap
    /\ UNCHANGED <<now, alertTypesToWatch>>
    /\ ReplyFrame

\* The request for one alert settles (alertProcessor.js 286-339).
AlertByIdSettles ==
    /\ reply.pc = "fetchById"
    /\ \E resp \in AlertReplies(now) :
          /\ Len(alerts) + Len(resp.alerts) <= MaxStore
          /\ reply' = answerAlert([reply EXCEPT !.vendor = resp.kind],
                                   resp.alerts, resp.kind = "error")
          /\ IF resp.alerts # << >>
             THEN StoreAs(addAlertsToCache(resp.alerts, alerts, alertsMap,
                                           alertTypesToWatch, now))
             ELSE /\ lastAdd' = NoAdd
                  /\ UNCHANGED <<alerts, alertsMap>>
    /\ UNCHANGED <<now, alertTypesToWatch>>
    /\ ReplyFrame

InitReply ==
    /\ now = StartTime
    /\ alertTypesToWatch = DEFAULT_ALERT_TYPES_TO_WATCH
    /\ alerts = << >>
    /\ alertsMap = EmptyMap
    /\ lastAdd = NoAdd
    /\ InitGateway

NextReply ==
    \/ PollAdmits
    \/ ClockAdvances
    \/ CallbackReturns
    \/ OnGetAlerts
    \/ CountQuerySettles
    \/ OnGetAlertById
    \/ AlertByIdSettles

SpecReply == InitReply /\ [][NextReply]_vars

(***************************************************************************)
(* Properties of the getAlerts and getAlertById requests, checked under    *)
(* SpecReply.                                                              *)
(***************************************************************************)
\* The stored alerts that pass the list and type filters of request r.
Matching(seq, r) ==
    SelectSeq(seq, LAMBDA a : /\ matchesLists(a, r.listIds)
                              /\ createAlertTypeFilter(r.types, a))

\* res holds the (at most n) most recent alerts of seq.
MostRecentOf(res, seq, n) ==
    /\ Len(res) <= n
    /\ Range(res) \subseteq Range(seq)
    /\ Len(res) < n => Range(seq) \subseteq Range(res)
    /\ \A a \in Range(seq) \ Range(res) :
          \A b \in Range(res) : SortTime(a) <= SortTime(b)

\* A request of the given kind starts in this step.
Starts(action) ==
    /\ reply.pc = "none"
    /\ reply'.pc # "none"
    /\ reply'.action = action

\* C28: getAlerts with count = n on a store with fewer than n matching
\* alerts makes one vendor page request, with pageSize = n, admits the
\* page into the store, and answers with the at most n most recent
\* matching alerts of the store.
CountFallbackAsksForCount ==
    [][/\ (Starts("getAlerts") /\ reply'.count # 0
           /\ Len(Matching(alerts', reply')) < reply'.count) =>
             /\ reply'.pc = "fetch"
             /\ reply'.requests = 1
             /\ reply'.pageSize = reply'.count
       /\ (reply.pc = "fetch" /\ reply'.pc = "answered" /\ ~reply'.error) =>
             /\ reply'.requests = 1
             /\ MostRecentOf(reply'.alerts, Matching(alerts', reply'),
                             reply'.count)]_vars

\* C29: getAlerts with a sinceTimestamp and no count answers with exactly
\* the stored alerts that pass the list and type filters and are newer than
\* sinceTimestamp, and leaves the store as it was.
SinceQueryOnlyReads ==
    [][(Starts("getAlerts") /\ reply'.count = 0 /\ reply'.sinceTimestamp # 0) =>
          /\ reply'.pc = "answered"
          /\ reply'.alerts =
                SelectSeq(Matching(alerts, reply'), LAMBDA a :
                    a.alertTimestamp # 0 /\ AlertTime(a) > reply'.sinceTimestamp)
          /\ alerts' = alerts
          /\ alertsMap' = alertsMap]_vars

\* C30: getAlertById answers with the stored alert, without a vendor call,
\* whenever the id is in the mapping, whatever the age of the alert; on a
\* miss it makes one vendor request; a 404 is answered without error by
\* {alert: null, message: 'Alert not found'}.
StoredAlertAnsweredFromStore ==
    [][/\ (Starts("getAlertById") /\ reply'.alertId # "") =>
             IF reply'.alertId \in DOMAIN alertsMap
             THEN /\ reply'.pc = "answered"
                  /\ reply'.requests = 0
                  /\ reply'.alert = <<alertsMap[reply'.alertId]>>
             ELSE /\ reply'.pc = "fetchById"
                  /\ reply'.requests = 1
       /\ (reply.pc = "fetchById" /\ reply'.vendor = "404") =>
             /\ reply'.pc = "answered"
             /\ ~reply'.error
             /\ reply'.alert = << >>
             /\ reply'.message = "Alert not found"]_vars

(***************************************************************************)
(* One doLookup call (part_000 97-165) over removePrivateIps (part_003     *)
(* 93-110), searchAlerts (part_007 18-50), requestsInParallel (request.js  *)
(* 447-473) and assembleLookupResults (part_003 13-69).  The record of the *)
(* lookup is kept in the variable fanout.  An entity value is the sequence *)
(* of the first two parts of value.split('.').                             *)
(***************************************************************************)
\* parseInt(s, 10) on the parts of the model; NoHdr is NaN, which fails
\* every comparison.
parseInt(s) ==
    CASE s = "8" -> 8
      [] s = "10" -> 10
      [] s = "15" -> 15
      [] s = "16" -> 16
      [] s = "31" -> 31
      [] s = "32" -> 32
      [] s = "168" -> 168
      [] s = "169" -> 169
      [] s = "172" -> 172
      [] s = "192" -> 192
      [] OTHER -> NoHdr

isPrivateIPOnlyFirstOctet(parts) ==
    parts[1] = "10" \/ parts[1] = "172" \/ parts[1] = "192"

\* part_003 93-102
isPrivateIP(parts) ==
    \/ parts[1] = "10"
    \/ /\ parts[1] = "172"
       /\ parseInt(parts[2]) # NoHdr
       /\ parseInt(parts[2]) >= 16
       /\ parseInt(parts[2]) <= 31
    \/ parts[1] = "192" /\ parts[2] = "168"

\* part_003 109-110
removePrivateIps(entities) ==
    SelectSeq(entities, LAMBDA e :
        ~e.isIP \/ (e.isIP /\ ~isPrivateIP(e.value)))

\* The entities of the model: the addresses 10.8, 172.15, 172.16, 172.31,
\* 172.32, 192.168, 192.169 and 8.8 (isIP), and the domain 10.example.
LookupEntities ==
    [isIP : {TRUE},
     value : {<<"10", "8">>, <<"172", "15">>, <<"172", "16">>,
              <<"172", "31">>, <<"172", "32">>, <<"192", "168">>,
              <<"192", "169">>, <<"8", "8">>}]
    \cup {[isIP |-> FALSE, value |-> <<"10", "example">>]}

\* The entities of one lookup: their values differ.
EntityLists ==
    {es \in UNION {[1..n -> LookupEntities] : n \in 1..MaxEntities} :
        \A i, j \in 1..Len(es) : i # j => es[i].value # es[j].value}

\* How the search request of an entity ends: body.alerts holds one alert,
\* two alerts or none, or requestWithDefaults throws.
SearchOutcomes == {"one", "two", "empty", "failed"}

\* body.alerts of a search response.
SearchAlerts(k, t) ==
    CASE k = "one" ->
            <<[alertId |-> "A", alertTimestamp |-> t, alertType |-> "Flash"]>>
      [] k = "two" ->
            <<[alertId |-> "A", alertTimestamp |-> t, alertType |-> "Flash"],
              [alertId |-> "B", alertTimestamp |-> t, alertType |-> "Alert"]>>
      [] OTHER -> << >>

\* doLookup up to its await (part_000 97-103, part_007 18-36): one request
\* per searchable entity, with resultId and query = entity.value.
NewLookup(entities, trial) ==
    [pc |-> "searching", TRIAL_MODE |-> trial, entities |-> entities,
     searchableEntities |-> removePrivateIps(entities),
     requests |-> [i \in 1..Len(removePrivateIps(entities)) |->
                      [resultId |-> removePrivateIps(entities)[i].value,
                       query |-> removePrivateIps(entities)[i].value]],
     outcomes |-> [i \in 1..Len(removePrivateIps(entities)) |-> "pending"],
     alerts |-> << >>, calls |-> 0, cb |-> "none", lookupResults |-> << >>]

\* The entries requestsInParallel returns (request.js 453-472): the entry
\* of a failed request has result null, and the entries without alerts are
\* filtered out.
searchEntries(requests, outcomes, t) ==
    LET entry(i) == [resultId |-> requests[i].resultId,
                     result |-> SearchAlerts(outcomes[i], t)]
        all == [i \in 1..Len(requests) |-> entry(i)]
    IN  SelectSeq(all, LAMBDA e : e.result # << >>)

\* part_000 106-112
RECURSIVE flattenResults(_)
flattenResults(entries) ==
    IF entries = << >> THEN << >>
    ELSE Head(entries).result \o flattenResults(Tail(entries))

\* The entries of an entity (part_000 131-133, part_003 150-152).
entriesOf(entity, entries) ==
    SelectSeq(entries, LAMBDA e : e.resultId = entity.value)

trialResultWithAlerts(entity, entries) ==
    LET es == entriesOf(entity, entries)
        alertCount == IF es = << >> THEN 0 ELSE Len(Head(es).result)
    IN  [entity |-> entity,
         data |-> IF alertCount > 0
                  THEN [kind |-> "data", summary |-> alertCount,
                        trialSearch |-> TRUE, alertCount |-> alertCount,
                        alerts |-> Head(es).result]
                  ELSE [kind |-> "null"]]

\* The result of an entity in trial mode (part_000 129-153).
trialResult(entity, entries) ==
    LET es == entriesOf(entity, entries)
        alertCount == IF es = << >> THEN 0 ELSE Len(Head(es).result)
    IN  [entity |-> entity,
         data |-> IF alertCount > 0
                  THEN [kind |-> "data", summary |-> alertCount,
                        trialSearch |-> TRUE, alertCount |-> alertCount,
                        alerts |-> << >>]
                  ELSE [kind |-> "null"]]

\* The result of an entity from assembleLookupResults (part_003 15-28,
\* 42-69): summary is the N of 'Alerts: N'.
assembledResult(entity, entries) ==
    LET found == flattenResults(entriesOf(entity, entries))
    IN  [entity |-> entity,
         data |-> IF Len(found) > 0
                  THEN [kind |-> "data", summary |-> Len(found),
                        trialSearch |-> FALSE, alertCount |-> Len(found),
                        alerts |-> found]
                  ELSE [kind |-> "null"]]

lookupResultsOfSearchable(l, entries) ==
    [i \in 1..Len(l.searchableEntities) |->
        IF l.TRIAL_MODE THEN trialResult(l.searchableEntities[i], entries)
        ELSE assembledResult(l.searchableEntities[i], entries)]

\* entities.map(...) of part_000 129 and of part_003 15-29.
lookupResultsOf(l, entries) ==
    [i \in 1..Len(l.entities) |->
        IF l.TRIAL_MODE THEN trialResult(l.entities[i], entries)
        ELSE assembledResult(l.entities[i], entries)]

LookupFrame == UNCHANGED <<queueVars, call, poll, life, reply>>

\* The requestWithDefaults of search request i settles.
SearchSettles ==
    /\ fanout.pc = "searching"
    /\ \E i \in 1..Len(fanout.requests), k \in SearchOutcomes :
          /\ fanout.outcomes[i] = "pending"
          /\ fanout' = [fanout EXCEPT !.outcomes[i] = k]
    /\ UNCHANGED <<now, storeVars>>
    /\ LookupFrame

\* Promise.all has resolved: doLookup stores the alerts found, assembles
\* the results and calls back (part_000 103-158).
LookupAnswers ==
    /\ fanout.pc = "searching"
    /\ \A i \in 1..Len(fanout.requests) : fanout.outcomes[i] # "pending"
    /\ LET entries == searchEntries(fanout.requests, fanout.outcomes, now)
           found == flattenResults(entries)
       IN  /\ fanout' = [fanout EXCEPT
                  !.pc = "done", !.alerts = entries, !.calls = @ + 1,
                  !.cb = "results",
                  !.lookupResults = lookupResultsOf(fanout, entries)]
           /\ IF found # << >>
              THEN /\ StoreAs(addAlertsToCache(found, alerts, alertsMap,
                                               alertTypesToWatch, now))
                   /\ UNCHANGED alertTypesToWatch
              ELSE UNCHANGED storeVars
    /\ UNCHANGED now
    /\ LookupFrame

InitLookup ==
    /\ now = StartTime
    /\ alertTypesToWatch = DEFAULT_ALERT_TYPES_TO_WATCH
    /\ alerts = << >>
    /\ alertsMap = EmptyMap
    /\ lastAdd = NoAdd
    /\ requestQueue = << >>
    /\ isProcessingQueue = FALSE
    /\ rateLimitState = [limit |-> DEFAULT_LIMIT, remaining |-> DEFAULT_LIMIT,
                         resetAt |-> 0]
    /\ sleeping = [at |-> "none", until |-> 0]
    /\ reqState = [r \in 1..MaxReq |-> [st |-> "new", attemptNumber |-> 0]]
    /\ dispatchLog = << >>
    /\ call = NoCall
    /\ poll = NoPoll
    /\ life = NoLife
    /\ reply = NoReply
    /\ \E entities \in EntityLists, trial \in BOOLEAN :
          fanout = NewLookup(entities, trial)

NextLookup ==
    \/ SearchSettles
    \/ LookupAnswers

SpecLookup == InitLookup /\ [][NextLookup]_vars

(***************************************************************************)
(* Properties of a lookup, checked under SpecLookup.                       *)
(***************************************************************************)
\* The first 16 bits of an address, and membership of a block base/len.
Prefix16(value) == parseInt(value[1]) * 256 + parseInt(value[2])

InBlock(value, base, len) ==
    Prefix16(value) \div 2 ^ (16 - len) = base \div 2 ^ (16 - len)

\* An entity that is an address of 10/8, 172.16/12 or 192.168/16.
PrivateAddress(e) ==
    /\ e.isIP
    /\ \/ InBlock(e.value, 10 * 256, 8)
       \/ InBlock(e.value, 172 * 256 + 16, 12)
       \/ InBlock(e.value, 192 * 256 + 168, 16)

\* C31: the searchable entities of a lookup are its entities without the
\* private addresses, in their order, and the search requests are those of
\* the searchable entities: none asks for a private address.
PrivateIpsAreNotSearched ==
    /\ fanout.searchableEntities =
           SelectSeq(fanout.entities, LAMBDA e : ~PrivateAddress(e))
    /\ Len(fanout.requests) = Len(fanout.searchableEntities)
    /\ \A i \in 1..Len(fanout.requests) :
          /\ fanout.requests[i].query = fanout.searchableEntities[i].value
          /\ \A j \in 1..Len(fanout.entities) :
                PrivateAddress(fanout.entities[j]) =>
                    fanout.requests[i].query # fanout.entities[j].value

\* C31 witness: a lookup of 172.31.x.x and 172.32.x.x has searched the
\* second alone.
PrivateIpsAreNotSearchedWitness ==
    /\ fanout.pc = "done"
    /\ Len(fanout.entities) = 2
    /\ fanout.entities[1].value = <<"172", "31">>
    /\ fanout.entities[2].value = <<"172", "32">>
    /\ Len(fanout.requests) = 1
    /\ fanout.outcomes[1] = "one"

\* The alerts the vendor returned to the search of entity i of the lookup:
\* none when the entity was not searched or its request failed.
MatchesOf(i) ==
    LET js == {j \in 1..Len(fanout.requests) :
                  fanout.requests[j].query = fanout.entities[i].value}
    IN  IF js = {} THEN << >>
        ELSE SearchAlerts(fanout.outcomes[CHOOSE j \in js : TRUE], now)

\* C32: after a lookup every alert X a search returned is answered from the
\* store by a following getAlertById(X.alertId), whatever lists are watched.
LookupWarmsStore ==
    fanout.pc = "done" =>
        \A i \in 1..Len(fanout.entities) :
            \A k \in 1..Len(MatchesOf(i)) :
                \A listIds \in ListIds :
                    findCachedAlert(alerts, listIds, MatchesOf(i)[k].alertId,
                                    now).cachedAlert = <<MatchesOf(i)[k]>>

\* C33: in trial mode the result of an entity with N > 0 matches has an
\* empty alerts array, alertCount N and the summary 'Alerts: N'; the data of
\* an entity without matches is null.
TrialCarriesCountsOnly ==
    (fanout.pc = "done" /\ fanout.TRIAL_MODE) =>
        \A i \in 1..Len(fanout.entities) :
            LET N == Len(MatchesOf(i))
                data == fanout.lookupResults[i].data
            IN  IF N > 0
                THEN /\ data.kind = "data"
                     /\ data.alerts = << >>
                     /\ data.alertCount = N
                     /\ data.summary = N
                ELSE data.kind = "null"

\* C33 witness: a trial lookup whose first entity has two matches.
TrialCarriesCountsOnlyWitness ==
    /\ fanout.pc = "done"
    /\ fanout.TRIAL_MODE
    /\ Len(fanout.requests) >= 1
    /\ fanout.entities[1] = fanout.searchableEntities[1]
    /\ fanout.outcomes[1] = "two"

MaxFilters == 2

ConfiguredTypes ==
    [form : {"string", "object"}, value : {"Flash", "flash", "urgent"}]

\* options.setAlertTypesToWatch: not set (empty), or one or two types.
TypeConfigs == UNION {[1..n -> ConfiguredTypes] : n \in 0..2}

\* The order of Array.prototype.sort on the strings of the model: by UTF-16
\* code units, capitals first.
CodeUnitRank(s) ==
    CASE s = "Flash" -> 1
      [] s = "Urgent" -> 2
      [] s = "flash" -> 3
      [] OTHER -> 4

RECURSIVE InsertByCodeUnits(_, _)
InsertByCodeUnits(sorted, v) ==
    IF sorted = << >> THEN <<v>>
    ELSE IF CodeUnitRank(v) < CodeUnitRank(Head(sorted))
         THEN <<v>> \o sorted
         ELSE <<Head(sorted)>> \o InsertByCodeUnits(Tail(sorted), v)

RECURSIVE Sort(_)
Unsorted(values) == values

\* Array.prototype.sort (part_000 216)
Sort(values) ==
    IF values = << >> THEN << >>
    ELSE InsertByCodeUnits(Sort(Tail(values)), Head(values))

\* part_000 209-212: the configured types, or the default ones.
typesToWatchOf(config) ==
    IF Len(config) > 0 THEN config
    ELSE <<[form |-> "string", value |-> "flash"],
           [form |-> "string", value |-> "urgent"]>>

\* cacheKey (part_000 215-217): JSON.stringify of the sorted values; the
\* sequence stands for its JSON text.
cacheKey(config) ==
    LET typesToWatch == typesToWatchOf(config) IN
    Sort([i \in 1..Len(typesToWatch) |-> typesToWatch[i].value])

NewFilterCache == [pc |-> "filters", alertTypeFilterCache |-> EmptyMap,
                   created |-> 0, calls |-> << >>]

\* createAlertTypeFilter(options) (part_000 207-256): the cache and the log
\* of calls after the call.
createFilter(c, config) ==
    LET key == cacheKey(config) IN
    IF key \in DOMAIN c.alertTypeFilterCache
    THEN [c EXCEPT !.calls = Append(@, [config |-> config,
                        filterFn |-> c.alertTypeFilterCache[key]])]
    ELSE [c EXCEPT !.created = @ + 1,
                   !.alertTypeFilterCache = MapSet(@, key, c.created + 1),
                   !.calls = Append(@, [config |-> config,
                                        filterFn |-> c.created + 1])]

CreateAlertTypeFilter ==
    /\ Len(call.calls) < MaxFilters
    /\ \E config \in TypeConfigs : call' = createFilter(call, config)
    /\ UNCHANGED <<now, storeVars, queueVars, fanout, poll, life, reply>>

InitMemo ==
    /\ now = StartTime
    /\ alertTypesToWatch = DEFAULT_ALERT_TYPES_TO_WATCH
    /\ alerts = << >>
    /\ alertsMap = EmptyMap
    /\ lastAdd = NoAdd
    /\ requestQueue = << >>
    /\ isProcessingQueue = FALSE
    /\ rateLimitState = [limit |-> DEFAULT_LIMIT, remaining |-> DEFAULT_LIMIT,
                         resetAt |-> 0]
    /\ sleeping = [at |-> "none", until |-> 0]
    /\ reqState = [r \in 1..MaxReq |-> [st |-> "new", attemptNumber |-> 0]]
    /\ dispatchLog = << >>
    /\ fanout = NoFanOut
    /\ poll = NoPoll
    /\ life = NoLife
    /\ reply = NoReply
    /\ call = NewFilterCache

NextMemo == CreateAlertTypeFilter

SpecMemo == InitMemo /\ [][NextMemo]_vars

(***************************************************************************)
(* Properties of the filter cache, checked under SpecMemo.                 *)
(***************************************************************************)
\* The values of a configuration, the default ones when it is empty.
ValuesOf(config) ==
    [i \in 1..Len(typesToWatchOf(config)) |-> typesToWatchOf(config)[i].value]

\* How often v occurs among the values.
TimesIn(values, v) == Cardinality({i \in 1..Len(values) : values[i] = v})

SameInstance(i, j) == call.calls[i].filterFn = call.calls[j].filterFn

VendorLists ==
    [isNull : {FALSE}, id : 0..2, name : {"", "n"}]
      \cup {[isNull |-> TRUE, id |-> 0, name |-> ""]}

\* String(n) on the ids of the model.
String(n) == CASE n = 1 -> "1" [] n = 2 -> "2" [] OTHER -> "0"

\* pollLists.js 36-41: {value: String(list.id || ''), display: list.name || ''}
formatList(list) ==
    [value |-> IF list.id = 0 THEN "" ELSE String(list.id), display |-> list.name]

ListsOfType == {<<l>> : l \in VendorLists} \cup {<< >>}

\* The outcomes of GET /v1/lists: "failed" is a rejected request, "nobody" a
\* response without body.lists, "lists" the body
\* {lists: {TOPIC: [...], COMPANY: [...]}}.
ListsResponses ==
    [kind : {"failed", "nobody"}, TOPIC : {<< >>}, COMPANY : {<< >>}]
      \cup [kind : {"lists"}, TOPIC : ListsOfType, COMPANY : ListsOfType]

\* pollLists.js 25-32: the lists of all types in one array
allListsOf(response) ==
    IF response.kind = "nobody" THEN << >>
    ELSE response.TOPIC \o response.COMPANY

\* What setCachedLists may be given: null, something that is no array, or an
\* array of formatted lists.
ListsArguments ==
    [kind : {"null", "notArray"}, items : {<< >>}]
      \cup [kind : {"array"},
            items : {<< >>} \cup {<<formatList(l)>> :
                                    l \in {v \in VendorLists : ~v.isNull}}]

setCachedListsUnguarded(catalog, lists) == lists.items

\* setCachedLists (stateManager.js 355-359)
setCachedLists(catalog, lists) ==
    IF lists.kind = "array" /\ Len(lists.items) > 0 THEN lists.items ELSE catalog

\* pollLists after the response (pollLists.js 25-58): the catalog it leaves
\* and the outcome.
afterLists(catalog, response) ==
    IF response.kind = "failed"
         \/ \E i \in 1..Len(allListsOf(response)) : allListsOf(response)[i].isNull
    THEN [lists |-> catalog, op |-> "pollFailed"]
    ELSE LET allLists == allListsOf(response)
             formattedLists == [i \in 1..Len(allLists) |-> formatList(allLists[i])]
         IN IF Len(formattedLists) > 0
            THEN [lists |-> setCachedLists(catalog,
                               [kind |-> "array", items |-> formattedLists]),
                  op |-> "pollSaved"]
            ELSE [lists |-> catalog, op |-> "pollEmpty"]

NewLists == [pc |-> "lists", lists |-> << >>, pending |-> 0, op |-> "none"]

ListsFrame ==
    UNCHANGED <<now, storeVars, queueVars, call, fanout, poll, reply>>

\* pollLists up to await requestWithDefaults (pollLists.js 11-22)
PollListsStarts ==
    /\ life.pending < MaxOverlap
    /\ life' = [life EXCEPT !.pending = @ + 1, !.op = "pollStarted"]
    /\ ListsFrame

\* the response of GET /v1/lists arrives (pollLists.js 25-58)
PollListsSettles ==
    /\ life.pending > 0
    /\ \E response \in ListsResponses :
         LET after == afterLists(life.lists, response) IN
         life' = [life EXCEPT !.pending = @ - 1, !.lists = after.lists,
                              !.op = after.op]
    /\ ListsFrame

\* setCachedLists(lists) called directly
SetCachedLists ==
    /\ \E lists \in ListsArguments :
         life' = [life EXCEPT !.lists = setCachedLists(life.lists, lists),
                     !.op = IF lists.kind = "array" /\ lists.items # << >>
                            THEN "setLists" ELSE "setEmpty"]
    /\ ListsFrame

\* clearCachedAlerts (stateManager.js 304-307) as the catalog sees it: the
\* sequence and the mapping it empties are empty in this specification.
ClearCachedAlertsKeepsLists ==
    /\ life.op # "cleared"
    /\ life' = [life EXCEPT !.op = "cleared"]
    /\ ListsFrame

InitLists ==
    /\ now = StartTime
    /\ alertTypesToWatch = DEFAULT_ALERT_TYPES_TO_WATCH
    /\ alerts = << >>
    /\ alertsMap = EmptyMap
    /\ lastAdd = NoAdd
    /\ requestQueue = << >>
    /\ isProcessingQueue = FALSE
    /\ rateLimitState = [limit |-> DEFAULT_LIMIT, remaining |-> DEFAULT_LIMIT,
                         resetAt |-> 0]
    /\ sleeping = [at |-> "none", until |-> 0]
    /\ reqState = [r \in 1..MaxReq |-> [st |-> "new", attemptNumber |-> 0]]
    /\ dispatchLog = << >>
    /\ call = NoCall
    /\ fanout = NoFanOut
    /\ poll = NoPoll
    /\ reply = NoReply
    /\ life = NewLists

NextLists ==
    \/ PollListsStarts
    \/ PollListsSettles
    \/ SetCachedLists
    \/ ClearCachedAlertsKeepsLists

SpecLists == InitLists /\ [][NextLists]_vars

(***************************************************************************)
(* Properties of the lists catalog, checked under SpecLists.               *)
(***************************************************************************)
\* C35: a catalog that is not empty never becomes empty, and setCachedLists
\* with nothing to set, a lists poll that fails and a lists poll that
\* returns no lists leave the catalog as it was.
CatalogNeverEmptied ==
    [][/\ life.lists # << >> => life'.lists # << >>
       /\ life'.op \in {"setEmpty", "pollFailed", "pollEmpty"}
            => life'.lists = life.lists]_vars

\* C35 witness: a poll has failed and the catalog saved before is in place.
CatalogNeverEmptiedWitness ==
    /\ life.pc = "lists"
    /\ life.op = "pollFailed"
    /\ life.lists = <<[value |-> "1", display |-> "n"],
                      [value |-> "2", display |-> ""]>>

(***************************************************************************)
(* A rate-limited count query, checked under SpecReply.                    *)
(***************************************************************************)
\* C39: when the page request of a count query is answered with a 429, the
\* handler answers without an error and with the alerts the store had
\* yielded before the request, cut to count.
RateLimitedCountQueryKeepsStoreAlerts ==
    [][(reply.pc = "fetch" /\ reply'.pc = "answered" /\ reply'.vendor = "429")
         => /\ ~reply'.error
            /\ reply'.alerts = Slice(reply.alerts, reply.count)]_vars

(***************************************************************************)
(* The gateway of request.js against a vendor that counts.  The vendor     *)
(* allows DEFAULT_LIMIT requests in a window of WINDOW_MS that opens with  *)
(* the first request after the last window ended, answers every request    *)
(* beyond the limit with a 429, and reports in the X-RateLimit-* headers   *)
(* of each answer what it counted when the request arrived                 *)
(* (updateRateLimitFromHeaders, request.js 43-73, reads them when the      *)
(* answer is delivered).  The vendor's state is kept in the variable poll: *)
(* answers[<<r, k>>] is its answer to attempt k of request r.              *)
(***************************************************************************)
NewVendor == [pc |-> "vendor", windowEnd |-> 0, received |-> 0,
              answers |-> EmptyMap]

\* The attempt of request r now on its way (request.js 343-352).
AttemptOf(r) == <<r, reqState[r].attemptNumber>>

\* The vendor after a request that arrives at time t, with its answer.
vendorCounts(v, key, t) ==
    LET fresh == t >= v.windowEnd
        windowEnd == IF fresh THEN t + WINDOW_MS ELSE v.windowEnd
        received == IF fresh THEN 1 ELSE v.received + 1
        over == received > DEFAULT_LIMIT
        answer == [kind |-> IF over THEN "429" ELSE "ok",
                   windowEnd |-> windowEnd,
                   h |-> [limit |-> DEFAULT_LIMIT,
                          remaining |-> IF over THEN 0
                                        ELSE DEFAULT_LIMIT - received,
                          reset |-> windowEnd - t]]
    IN  [v EXCEPT !.windowEnd = windowEnd, !.received = received,
                  !.answers = MapSet(@, key, answer)]

\* request.run of executeRequest reaches the vendor (request.js 343-352).  A
\* retry is sent after sleep(retryDelay) with the reset of the 429 it
\* follows (request.js 404-416), so not before the window of that 429 ended.
VendorReceives ==
    /\ \E r \in 1..MaxReq :
         /\ reqState[r].st = "inflight"
         /\ AttemptOf(r) \notin DOMAIN poll.answers
         /\ reqState[r].attemptNumber > 0 =>
               now >= poll.answers[<<r, reqState[r].attemptNumber - 1>>].windowEnd
         /\ poll' = vendorCounts(poll, AttemptOf(r), now)
    /\ UNCHANGED <<now, storeVars, queueVars, call, fanout, life, reply>>

\* The vendor's answer is delivered to executeRequest (request.js 354-416).
VendorResponds ==
    \E r \in 1..MaxReq :
        /\ AttemptOf(r) \in DOMAIN poll.answers
        /\ Respond(r, poll.answers[AttemptOf(r)].kind, poll.answers[AttemptOf(r)].h)

\* Time passes; a request the queue dispatched reaches the vendor at once.
TickWindow ==
    /\ \A r \in 1..MaxReq :
          (reqState[r].st = "inflight" /\ reqState[r].attemptNumber = 0)
              => AttemptOf(r) \in DOMAIN poll.answers
    /\ Tick

InitWindow ==
    /\ now = 1
    /\ alertTypesToWatch = DEFAULT_ALERT_TYPES_TO_WATCH
    /\ alerts = << >>
    /\ alertsMap = EmptyMap
    /\ lastAdd = NoAdd
    /\ requestQueue = << >>
    /\ isProcessingQueue = FALSE
    /\ rateLimitState = [limit |-> DEFAULT_LIMIT, remaining |-> DEFAULT_LIMIT,
                         resetAt |-> 0]
    /\ sleeping = [at |-> "none", until |-> 0]
    /\ reqState = [r \in 1..MaxReq |-> [st |-> "new", attemptNumber |-> 0]]
    /\ dispatchLog = << >>
    /\ call = NoCall
    /\ fanout = NoFanOut
    /\ life = NoLife
    /\ reply = NoReply
    /\ poll = NewVendor

NextWindow ==
    \/ QueueRequest
    \/ WakeProcessor
    \/ VendorReceives
    \/ VendorResponds
    \/ TickWindow

SpecWindow == InitWindow /\ [][NextWindow]_vars

(***************************************************************************)
(* Properties of the gateway against the vendor, checked under SpecWindow. *)
(***************************************************************************)
\* C36: the vendor never receives more requests in one of its windows than
\* the limit it advertises.
DispatchesWithinLimit == poll.received <= DEFAULT_LIMIT

\* The passages of request r through the gate of processQueue.
GatePassages(r) == {i \in 1..Len(dispatchLog) : dispatchLog[i].id = r}

\* C38: every attempt that reaches the vendor was made after a passage of
\* its own through the gate: a request has no more attempts than passages.
EveryAttemptPassesGate ==
    \A r \in 1..MaxReq :
        Cardinality({key \in DOMAIN poll.answers : key[1] = r})
            <= Cardinality(GatePassages(r))

(***************************************************************************)
(* The gateway against the vendor that counts, with its timers: the sleep  *)
(* of processQueue ends when its time has come (setTimeout, request.js     *)
(* 34-36), time does not stop while a timer is pending, and a request sent *)
(* reaches the vendor.                                                     *)
(***************************************************************************)
\* The timer of the processor's sleep has not fired yet.
TimerPending == sleeping.at # "none" /\ now < sleeping.until

\* Time passes: up to MaxTime, and beyond it up to the pending timer.
TickLive ==
    /\ \A r \in 1..MaxReq :
          (reqState[r].st = "inflight" /\ reqState[r].attemptNumber = 0)
              => AttemptOf(r) \in DOMAIN poll.answers
    /\ now < MaxTime \/ TimerPending
    /\ now' = now + 1
    /\ lastAdd' = NoAdd
    /\ UNCHANGED <<alertTypesToWatch, alerts, alertsMap>>
    /\ UNCHANGED queueVars
    /\ UNCHANGED clientVars

\* The gateway after earlier requests used up the quota of the window and
\* failed without an answer: remaining is 0 (request.js 127), no reset time
\* is known (request.js 58-61) and the vendor has counted nothing.
InitLive ==
    /\ now = 1
    /\ alertTypesToWatch = DEFAULT_ALERT_TYPES_TO_WATCH
    /\ alerts = << >>
    /\ alertsMap = EmptyMap
    /\ lastAdd = NoAdd
    /\ requestQueue = << >>
    /\ isProcessingQueue = FALSE
    /\ rateLimitState = [limit |-> DEFAULT_LIMIT, remaining |-> 0, resetAt |-> 0]
    /\ sleeping = [at |-> "none", until |-> 0]
    /\ reqState = [r \in 1..MaxReq |-> [st |-> "new", attemptNumber |-> 0]]
    /\ dispatchLog = << >>
    /\ call = NoCall
    /\ fanout = NoFanOut
    /\ life = NoLife
    /\ reply = NoReply
    /\ poll = NewVendor

NextLive ==
    \/ QueueRequest
    \/ WakeProcessor
    \/ VendorReceives
    \/ VendorResponds
    \/ TickLive

SpecLive ==
    /\ InitLive
    /\ [][NextLive]_vars
    /\ WF_vars(WakeProcessor)
    /\ WF_vars(VendorReceives)
    /\ WF_vars(TickLive)

(***************************************************************************)
(* Properties of the gateway with its timers, checked under SpecLive.      *)
(***************************************************************************)
\* C37: no queued request is stranded.  Whenever requests wait in the queue
\* the processor is active - its loop is suspended in a sleep, and it is
\* the only one: a submission made while it is active leaves its sleep and
\* the dispatches as they are - and the queue holds exactly the requests
\* that wait, every other request being new, dispatched, or rejected as
\* timed out or for a full queue; and a queue that holds requests is
\* eventually empty, each of them dispatched or rejected as timed out.
NoRequestStranded ==
    /\ [](/\ requestQueue # << >> => isProcessingQueue
          /\ isProcessingQueue <=> sleeping.at # "none"
          /\ \A r \in 1..MaxReq :
                /\ reqState[r].st = "queued"
                     <=> \E k \in 1..Len(requestQueue) : requestQueue[k].id = r
                /\ reqState[r].st \in {"new", "queued", "inflight", "done",
                                       "failed", "timedout", "full"})
    /\ [][(isProcessingQueue /\ \E r \in 1..MaxReq : Submitted(r))
            => sleeping' = sleeping /\ dispatchLog' = dispatchLog]_vars
    /\ (requestQueue # << >>) ~> (requestQueue = << >>)

\* C37 witness: of the requests submitted while the processor slept on an
\* exhausted rate limit, one was rejected as timed out and a later one was
\* dispatched when the processor resumed; nothing waits any more.
NoRequestStrandedWitness ==
    /\ requestQueue = << >>
    /\ ~isProcessingQueue
    /\ \E i \in 1..Len(dispatchLog) :
          /\ dispatchLog[i].woke
          /\ \E r \in 1..MaxReq :
                /\ reqState[r].st = "timedout"
                /\ r < dispatchLog[i].id

====
